---- MODULE Spec2Model ----
(***************************************************************************)
(* Model of the substitution decision pipeline of Epoch:                   *)
(*   - LLMSwapAgent.run, the tool-calling loop, and the parsing of the     *)
(*     agent's final answer (services/llm_swap_agent.py,                   *)
(*     models/agent_response.py);                                          *)
(*   - HealthScorer (services/health_scorer.py, models/health_score.py);   *)
(*   - SwapEngine ranking weights (services/swap_engine.py).               *)
(*                                                                         *)
(* Numbers are fixed point.  JSON numbers, confidences and flavor scores   *)
(* are in hundredths (0.85 is 85, 72 is 7200); health scores are in        *)
(* thousandths of a point (80 points is 80000); weights are in             *)
(* thousandths (0.6 is 600).                                               *)
(***************************************************************************)
EXTENDS Integers, Sequences, FiniteSets, TLC

VARIABLES
    \* ---- LLMSwapAgent.run ----
    pc,              \* position of run: "loop", "tools", "batch", "done", "raised", "idle"
    iteration,       \* local iteration
    contents,        \* local contents, the conversation
    tools_called,    \* local tools_called
    pending,         \* function calls of the current turn not yet executed
    response_parts,  \* local function_response_parts
    result,          \* the AgentSwapResult returned by run (NoResult before)
    response,        \* local response: what the last generate_content call gave
    model_calls,     \* history: number of generate_content calls made
    final,           \* history: the text given to _parse_agent_response and what
                     \* json.loads makes of it
    \* ---- HealthScorer ----
    h_op,            \* the operation called: "none", "calculate", "assign", "construct"
    h_args,          \* arguments (score, rating) of assign_rating and HealthScore(...)
    nutrition_data,  \* argument nutrition_data
    micro_nutrition, \* argument micro_nutrition
    health_score,    \* what the operation gave
    \* ---- SwapEngine ----
    engine,          \* the fields of the SwapEngine set by __init__
    ranking,         \* the call of rank_substitutes and what it returned
    found,           \* the call of find_substitutes and what it returned
    \* ---- functions without state: projection, apply_swaps, normalisation ----
    f_call,          \* the function called and its arguments
    f_ret,           \* what it returned
    \* ---- analyze_full, the /analyze-full coordinator ----
    a_pc,            \* position: "off", "start", "rules", "respond", "done"
    a_in,            \* the request's environment: what the agent and the services give
    a_loc,           \* the locals of steps 6-9 of analyze_full
    \* ---- the provider services: rate limit and request helper ----
    limiter,         \* RecipeDBService: _rate_limit_delay, _rate_limit_lock,
                     \* _last_request_time, the monotonic clock, the slots reserved
    threads,         \* the threads in _wait_rate_limit: position and locals
    request          \* one call of _make_request: position, retry_count, history

agentVars == <<pc, iteration, contents, tools_called, pending, response_parts,
               result, response, model_calls, final>>
healthVars == <<h_op, h_args, nutrition_data, micro_nutrition, health_score>>
swapVars == <<engine, ranking, found>>
pureVars == <<f_call, f_ret>>
coordVars == <<a_pc, a_in, a_loc>>
serviceVars == <<limiter, threads, request>>
vars == <<agentVars, healthVars, swapVars, pureVars, coordVars, serviceVars>>

(***************************************************************************)
(* Bounds                                                                  *)
(***************************************************************************)
MaxIterations == 2      \* self.max_iterations of the modelled run
MaxCallsPerTurn == 2    \* function calls in one model response
MaxTextLen == 3         \* tokens of a text given to _parse_agent_response
MaxFinalLen == 1        \* tokens of a short final text in the agent loop
MaxSubs == 2            \* entries of a "substitutions" list

Min(a, b) == IF a <= b THEN a ELSE b
Max(a, b) == IF a >= b THEN a ELSE b
Range(s) == {s[i] : i \in 1..Len(s)}

(***************************************************************************)
(* JSON values as the decoder hands them to the parser                     *)
(***************************************************************************)
Absent == [t |-> "absent", n |-> 0, s |-> ""]    \* key not in the dict
Null == [t |-> "null", n |-> 0, s |-> ""]        \* JSON null, Python None
Num(n) == [t |-> "num", n |-> n, s |-> ""]       \* JSON number, in hundredths
Str(s) == [t |-> "str", n |-> 0, s |-> s]        \* JSON string

\* dict.get(key, default)
Get(v, default) == IF v.t = "absent" THEN default ELSE v

\* float(x): a number is itself, a numeric string is parsed, anything else
\* raises (ValueError for a non-numeric string, TypeError for None).
NumericStrings == {"0.8"}
StrToNum(s) == IF s = "0.8" THEN 80 ELSE 0
FloatRaises(v) ==
    \/ v.t = "null"
    \/ v.t = "str" /\ v.s \notin NumericStrings
FloatOf(v) == IF v.t = "num" THEN v.n ELSE StrToNum(v.s)

(***************************************************************************)
(* Values of the state before an operation is called                       *)
(***************************************************************************)
NoValue == -1      \* a key that is not in a nutrition dict
Nutrition(cal, p, c, f, sat, trans, sod, sug, chol, fib) ==
    [calories |-> cal, protein |-> p, carbs |-> c, fat |-> f, saturated_fat |-> sat,
     trans_fat |-> trans, sodium |-> sod, sugar |-> sug, cholesterol |-> chol,
     fiber |-> fib]
NoNutrition == Nutrition(NoValue, NoValue, NoValue, NoValue, NoValue, NoValue,
                         NoValue, NoValue, NoValue, NoValue)
NoBreakdown == [macronutrient_score |-> 0, micronutrient_score |-> 0,
                negative_factors_penalty |-> 0, raw_total |-> 0,
                normalized_score |-> 0]
NoHealthScore == [raised |-> FALSE, score |-> 0, rating |-> "", breakdown |-> NoBreakdown]
NoEngine == [constructed |-> FALSE, use_semantic_rerank |-> FALSE,
             semantic_weight |-> 0, flavor_weight |-> 0, health_weight |-> 0]
NoRanking == [called |-> FALSE, raised |-> FALSE, candidates |-> <<>>,
              original_name |-> <<>>,
              current_health_score |-> 0, flavor |-> "", semantic |-> "",
              semantic_applied |-> FALSE, scored |-> <<>>, options |-> <<>>]

NoArgs == [score |-> NoValue, rating |-> ""]
HealthIdle ==
    /\ h_op = "none"
    /\ h_args = NoArgs
    /\ nutrition_data = NoNutrition
    /\ micro_nutrition = <<>>
    /\ health_score = NoHealthScore
NoFound == [called |-> FALSE, raised |-> FALSE, risky_ingredient |-> <<>>,
            recipe_ingredients |-> <<>>, pairings |-> "", pool |-> <<>>,
            augmented |-> <<>>, candidates |-> <<>>, options |-> <<>>]
SwapIdle ==
    /\ engine = NoEngine
    /\ ranking = NoRanking
    /\ found = NoFound
NoCall == [op |-> "none"]
PureIdle ==
    /\ f_call = NoCall
    /\ f_ret = NoCall
CoordIdle ==
    /\ a_pc = "off"
    /\ a_in = NoCall
    /\ a_loc = NoCall

\* no provider service is in use
NoLimiter == [delay |-> 0, lock |-> 0, last |-> 0, clock |-> 0, slots |-> <<>>]
NoThreads == <<>>
NoRequest == [pc |-> "off"]
ServiceIdle ==
    /\ limiter = NoLimiter
    /\ threads = NoThreads
    /\ request = NoRequest

(***************************************************************************)
(* Final text.  A text is a sequence of tokens:                            *)
(*   "{" "}"  braces          "k"  a member key with its colon             *)
(*   "v"      a scalar value  "S"  the string literal "}" (a string that   *)
(*                                 holds a closing brace)                  *)
(*   "F"      a code fence    "x"  prose        " "  whitespace            *)
(*   "S<"     the first two characters of "S", left by a slice that ends   *)
(*            on the brace inside the string                               *)
(***************************************************************************)
Tokens == {"{", "}", "k", "v", "S", "F", "x", " "}

IsCloser(tok) == tok \in {"}", "S"}       \* the token holds the character }

\* str.strip() on whitespace
RECURSIVE LStrip(_)
LStrip(s) == IF s # <<>> /\ Head(s) = " " THEN LStrip(Tail(s)) ELSE s
RECURSIVE RStrip(_)
RStrip(s) ==
    IF s # <<>> /\ s[Len(s)] = " " THEN RStrip(SubSeq(s, 1, Len(s) - 1)) ELSE s
Strip(s) == RStrip(LStrip(s))

\* s[:i+1] where character i is the } of token i: the token is kept whole
\* unless it is the string literal, which is cut after its brace.
SliceThrough(s, from, i) ==
    IF s[i] = "S" THEN SubSeq(s, from, i - 1) \o <<"S<">> ELSE SubSeq(s, from, i)

\* The depth scan of _extract_json over stripped[i..]: the index of the token
\* at which depth returns to 0, or 0 when it never does.
RECURSIVE BalanceScan(_, _, _)
BalanceScan(s, i, depth) ==
    IF i > Len(s) THEN 0
    ELSE IF s[i] = "{" THEN BalanceScan(s, i + 1, depth + 1)
    ELSE IF IsCloser(s[i])
         THEN IF depth - 1 = 0 THEN i ELSE BalanceScan(s, i + 1, depth - 1)
    ELSE BalanceScan(s, i + 1, depth)

RECURSIVE SkipWs(_, _)
SkipWs(s, i) == IF i <= Len(s) /\ s[i] = " " THEN SkipWs(s, i + 1) ELSE i

\* The re.search for an object between two code fences (DOTALL): the matches
\* <<b, e>> of group 1 that start after the fence at position f.
FenceMatchesAt(s, f) ==
    IF s[f] # "F" THEN {}
    ELSE LET b == SkipWs(s, f + 1) IN
         IF b > Len(s) \/ s[b] # "{" THEN {}
         ELSE {<<b, e>> : e \in {e \in (b + 1)..Len(s) :
                   /\ s[e] = "}"
                   /\ SkipWs(s, e + 1) <= Len(s)
                   /\ s[SkipWs(s, e + 1)] = "F"}}
MinOf(S) == CHOOSE m \in S : \A o \in S : m <= o
MaxOf(S) == CHOOSE m \in S : \A o \in S : m >= o
\* the leftmost fence that matches, and from it the shortest group (.*?)
FenceSearch(s) ==
    LET starts == {f \in 1..Len(s) : FenceMatchesAt(s, f) # {}} IN
    IF starts = {} THEN <<>>
    ELSE LET f == MinOf(starts)
             ms == FenceMatchesAt(s, f)
             e == MinOf({m[2] : m \in ms})
             b == (CHOOSE m \in ms : TRUE)[1]
         IN SubSeq(s, b, e)

NoJson == <<"None">>     \* the None of _extract_json

\* LLMSwapAgent._extract_json
ExtractJson(text) ==
    LET stripped == Strip(text)
        bal == IF stripped # <<>> /\ Head(stripped) = "{"
               THEN BalanceScan(stripped, 1, 0) ELSE 0
        fenced == FenceSearch(text)
        opens == {i \in 1..Len(text) : text[i] = "{"}
        closes == {i \in 1..Len(text) : IsCloser(text[i])}
    IN IF bal # 0 THEN SliceThrough(stripped, 1, bal)
       ELSE IF fenced # <<>> THEN fenced
       ELSE IF opens # {} /\ closes # {} /\ MaxOf(closes) > MinOf(opens)
            THEN SliceThrough(text, MinOf(opens), MaxOf(closes))
       ELSE NoJson

\* json.loads on a token string: optional whitespace around one object; an
\* object is { } or { k value } and a value is a scalar, a string or an object.
\* ParseObject and ParseValue give the index after what they read, 0 on error.
RECURSIVE ParseObject(_, _)
RECURSIVE ParseValue(_, _)
ParseValue(s, i) ==
    IF i > Len(s) THEN 0
    ELSE IF s[i] \in {"v", "S"} THEN i + 1
    ELSE IF s[i] = "{" THEN ParseObject(s, i)
    ELSE 0
ParseObject(s, i) ==
    LET j == SkipWs(s, i + 1) IN
    IF j > Len(s) THEN 0
    ELSE IF s[j] = "}" THEN j + 1
    ELSE IF s[j] = "k"
         THEN LET v == ParseValue(s, SkipWs(s, j + 1))
                  e == SkipWs(s, v)
              IN IF v # 0 /\ e <= Len(s) /\ s[e] = "}" THEN e + 1 ELSE 0
    ELSE 0
\* TRUE when json.loads returns (a dict), FALSE when it raises JSONDecodeError
JsonLoads(s) ==
    LET i == SkipWs(s, 1) IN
    /\ i <= Len(s)
    /\ s[i] = "{"
    /\ ParseObject(s, i) # 0
    /\ SkipWs(s, ParseObject(s, i)) = Len(s) + 1
\* the decoded object has at least one member
HasMembers(s) == "k" \in Range(s)

(***************************************************************************)
(* The decoded answer.  A decoded object is a record of its top-level      *)
(* members; an entry of "substitutions" is a record of its members, or a   *)
(* value that is no object.                                                *)
(***************************************************************************)
NotAnObject == [obj |-> FALSE, original_ingredient |-> Absent,
                substitute_ingredient |-> Absent, confidence |-> Absent,
                flavor_similarity_score |-> Absent]
EntryObj(o, s, c, f) == [obj |-> TRUE, original_ingredient |-> o,
                         substitute_ingredient |-> s, confidence |-> c,
                         flavor_similarity_score |-> f]

\* "substitutions": absent, null, or a list of entries
NoSubsKey == [t |-> "absent", items |-> <<>>]
NullSubs == [t |-> "null", items |-> <<>>]
SubsList(items) == [t |-> "list", items |-> items]

\* "no_substitute_ingredients": absent, null, or a list of strings
NoList == [t |-> "absent", items |-> <<>>]
NullList == [t |-> "null", items |-> <<>>]
StrList(items) == [t |-> "list", items |-> items]

EmptyObject == [substitutions |-> NoSubsKey, overall_confidence |-> Absent,
                data_completeness |-> Absent,
                no_substitute_ingredients |-> NoList]

\* AgentSubstitution(...): pydantic raises ValidationError when a required
\* str is None or a bounded float is out of its range.
SubstitutionInvalid(o, s, c, f) ==
    \/ o.t # "str"
    \/ s.t # "str"
    \/ c < 0 \/ c > 100          \* confidence: ge=0.0, le=1.0
    \/ f < 0 \/ f > 10000        \* flavor_similarity_score: ge=0.0, le=100.0

\* The body of the try block of _parse_agent_response for one entry:
\* TRUE when any statement of it raises.
EntryRaises(e) ==
    \/ ~e.obj                                            \* sub_data.get: AttributeError
    \/ FloatRaises(Get(e.confidence, Num(50)))
    \/ FloatRaises(Get(e.flavor_similarity_score, Num(5000)))
    \/ SubstitutionInvalid(Get(e.original_ingredient, Str("")),
                           Get(e.substitute_ingredient, Str("")),
                           FloatOf(Get(e.confidence, Num(50))),
                           FloatOf(Get(e.flavor_similarity_score, Num(5000))))

\* the AgentSubstitution built from an entry that does not raise
MakeSubstitution(e) ==
    [original_ingredient |-> Get(e.original_ingredient, Str("")).s,
     substitute_ingredient |-> Get(e.substitute_ingredient, Str("")).s,
     confidence |-> FloatOf(Get(e.confidence, Num(50))),
     flavor_similarity_score |-> FloatOf(Get(e.flavor_similarity_score, Num(5000)))]

\* mutant: the try block encloses the loop, so the first entry that raises
\* ends it
RECURSIVE ParseSubstitutions_StopAtFirst(_)
ParseSubstitutions_StopAtFirst(items) ==
    IF items = <<>> THEN <<>>
    ELSE IF EntryRaises(Head(items)) THEN <<>>
    ELSE <<MakeSubstitution(Head(items))>> \o ParseSubstitutions_StopAtFirst(Tail(items))

\* the for loop over data.get("substitutions", []): an entry that raises is
\* logged and skipped, the others are appended in order
RECURSIVE ParseSubstitutions(_)
ParseSubstitutions(items) ==
    IF items = <<>> THEN <<>>
    ELSE IF EntryRaises(Head(items)) THEN ParseSubstitutions(Tail(items))
    ELSE <<MakeSubstitution(Head(items))>> \o ParseSubstitutions(Tail(items))

(***************************************************************************)
(* AgentSwapResult                                                         *)
(***************************************************************************)
NoReasoning == [kind |-> "none", text |-> <<>>]
RawText(text) == [kind |-> "text", text |-> text]
ApiError == [kind |-> "api_error", text |-> <<>>]     \* "Gemini API error: ..."
LimitNote == [kind |-> "limit", text |-> <<>>]        \* "Agent reached maximum iteration limit"

NoResult == [returned |-> FALSE, substitutions |-> <<>>, overall_confidence |-> 0,
             data_completeness |-> "", no_substitute_ingredients |-> <<>>,
             apis_called |-> <<>>, iterations |-> 0, raw_reasoning |-> NoReasoning]

\* AgentSwapResult(...) with the defaults of the model's fields
AgentSwapResult(subs, conf, completeness, nosub, apis, iters, raw) ==
    [returned |-> TRUE, substitutions |-> subs, overall_confidence |-> conf,
     data_completeness |-> completeness, no_substitute_ingredients |-> nosub,
     apis_called |-> apis, iterations |-> iters, raw_reasoning |-> raw]

ParseError(text, apis, iters) ==
    AgentSwapResult(<<>>, 50, "parse_error", <<>>, apis, iters, RawText(text))

\* _parse_agent_response after json.loads succeeded: TRUE when a statement
\* outside the per-entry try block raises.
\*   for sub_data in None               -> TypeError
\*   float(None), float("high")         -> TypeError, ValueError
\*   overall_confidence out of [0, 1]   -> ValidationError
\*   data_completeness not a str        -> ValidationError
\*   no_substitute_ingredients not list -> ValidationError
DecodedRaises(data) ==
    \/ data.substitutions.t = "null"
    \/ FloatRaises(Get(data.overall_confidence, Num(50)))
    \/ FloatOf(Get(data.overall_confidence, Num(50))) < 0
    \/ FloatOf(Get(data.overall_confidence, Num(50))) > 100
    \/ Get(data.data_completeness, Str("partial")).t # "str"
    \/ data.no_substitute_ingredients.t = "null"

DecodedResult(data, apis, iters) ==
    AgentSwapResult(ParseSubstitutions(data.substitutions.items),
                    FloatOf(Get(data.overall_confidence, Num(50))),
                    Get(data.data_completeness, Str("partial")).s,
                    data.no_substitute_ingredients.items,
                    apis, iters, NoReasoning)

\* mutant: json.loads is not guarded, a JSONDecodeError leaves the method
ParseAgentResponse_DecodeErrorRaises(text, data, apis, iters) ==
    LET json_str == ExtractJson(text) IN
    IF json_str = NoJson THEN [raised |-> FALSE, result |-> ParseError(text, apis, iters)]
    ELSE IF ~JsonLoads(json_str) THEN [raised |-> TRUE, result |-> NoResult]
    ELSE IF DecodedRaises(data) THEN [raised |-> TRUE, result |-> NoResult]
    ELSE [raised |-> FALSE, result |-> DecodedResult(data, apis, iters)]

\* LLMSwapAgent._parse_agent_response(text, tools_called, iterations), where
\* data is what json.loads gives when it succeeds.  The outcome is
\* [raised, result].
ParseAgentResponse(text, data, apis, iters) ==
    LET json_str == ExtractJson(text) IN
    IF json_str = NoJson THEN [raised |-> FALSE, result |-> ParseError(text, apis, iters)]
    ELSE IF ~JsonLoads(json_str)
         THEN [raised |-> FALSE, result |-> ParseError(text, apis, iters)]
    ELSE IF DecodedRaises(data) THEN [raised |-> TRUE, result |-> NoResult]
    ELSE [raised |-> FALSE, result |-> DecodedResult(data, apis, iters)]

(***************************************************************************)
(* LLMSwapAgent.run                                                        *)
(***************************************************************************)
\* Names the model may request: one of the sixteen keys of _tool_handlers
\* and one name that is no key.
KnownTools == {"flavordb_get_entity_by_name"}
ToolNames == KnownTools \cup {"unknown_tool"}

\* A function call part: the requested name, and whether the provider call
\* behind its handler raises (no provider is called for an unknown name).
FunctionCalls == {fc \in [name : ToolNames, provider_raises : BOOLEAN] :
                     fc.provider_raises => fc.name \in KnownTools}

\* LLMSwapAgent._execute_tool: the dict handed back to the model
ExecuteTool(fc) ==
    IF fc.name \notin KnownTools THEN "unknown_tool_error"
    ELSE IF fc.provider_raises THEN "error_note"      \* except Exception
    ELSE "data"

\* entries of contents
UserMessage == [role |-> "user", kind |-> "prompt", calls |-> <<>>, parts |-> <<>>, text |-> <<>>]
ModelCalls(calls) == [role |-> "model", kind |-> "calls", calls |-> calls, parts |-> <<>>, text |-> <<>>]
ModelText(text) == [role |-> "model", kind |-> "text", calls |-> <<>>, parts |-> <<>>, text |-> text]
ToolResults(parts) == [role |-> "user", kind |-> "results", calls |-> <<>>, parts |-> parts, text |-> <<>>]

RECURSIVE SeqsUpTo(_, _)
SeqsUpTo(S, n) ==
    IF n = 0 THEN {<<>>}
    ELSE LET shorter == SeqsUpTo(S, n - 1) IN
         shorter \cup {Append(s, x) : s \in {q \in shorter : Len(q) = n - 1}, x \in S}

Texts == SeqsUpTo(Tokens, MaxTextLen)

\* the entries a model may put in "substitutions"
NameValues == {Null, Str("butter")}
ConfidenceValues == {Absent, Null, Num(-10), Num(85), Num(150), Str("high"), Str("0.8")}
FlavorValues == {Absent, Num(7200), Num(10100), Str("high")}
Entries == {NotAnObject} \cup
           {EntryObj(o, Str("olive oil"), c, f) :
                o \in NameValues, c \in ConfidenceValues, f \in FlavorValues} \cup
           {EntryObj(Absent, Null, Absent, Absent)}

\* the decoded objects of the agent loop (the parser is exercised on more
\* under SpecParse)
GoodEntry == EntryObj(Str("butter"), Str("olive oil"), Num(85), Num(7200))
AgentObjects ==
    {[substitutions |-> SubsList(<<GoodEntry>>), overall_confidence |-> Num(82),
      data_completeness |-> Str("full"), no_substitute_ingredients |-> StrList(<<"flour">>)],
     [substitutions |-> NoSubsKey, overall_confidence |-> Absent,
      data_completeness |-> Str("minimal"), no_substitute_ingredients |-> NoList],
     [substitutions |-> NoSubsKey, overall_confidence |-> Num(150),
      data_completeness |-> Str("full"), no_substitute_ingredients |-> NoList],
     [substitutions |-> SubsList(<<GoodEntry>>), overall_confidence |-> Num(82),
      data_completeness |-> Str("complete"), no_substitute_ingredients |-> NoList],
     [substitutions |-> NullSubs, overall_confidence |-> Num(82),
      data_completeness |-> Str("partial"), no_substitute_ingredients |-> NoList]}

\* final texts of the agent loop: every short text, and longer ones that
\* take each path of _extract_json
LongTexts ==
    {<<"{", "k", "v", "}">>,                \* the bare object
     <<"F", "{", "k", "v", "}", "F">>,      \* in a code fence
     <<"x", "{", "k", "v", "}", "x">>,      \* prose around it
     <<"{", "k", "{", "}", "}">>,           \* a nested object
     <<"{", "k", "S", "}">>,                \* a closing brace inside a string
     <<"x", "{", "k", "v">>,                \* cut short
     <<"{", "k", "v", "}", "x", "}">>}      \* a stray brace after it
AgentTexts == SeqsUpTo(Tokens, MaxFinalLen) \cup LongTexts

\* what json.loads gives for the text, when it gives anything
DecodedObjects(text, objects) ==
    LET json_str == ExtractJson(text) IN
    IF json_str # NoJson /\ JsonLoads(json_str) /\ HasMembers(json_str)
    THEN objects ELSE {EmptyObject}

NoFinal == [given |-> FALSE, text |-> <<>>, data |-> EmptyObject]

InitAgent ==
    /\ PureIdle
    /\ ServiceIdle
    /\ CoordIdle
    /\ pc = "loop"
    /\ iteration = 0
    /\ contents = <<UserMessage>>
    /\ tools_called = <<>>
    /\ pending = <<>>
    /\ response_parts = <<>>
    /\ result = NoResult
    /\ response = "none"
    /\ model_calls = 0
    /\ final = NoFinal
    /\ HealthIdle
    /\ SwapIdle

\* mutant: the exception of generate_content is logged and the loop goes on
ModelCallRaises_Swallowed ==
    /\ pc = "loop"
    /\ iteration < MaxIterations
    /\ iteration' = iteration + 1
    /\ model_calls' = model_calls + 1
    /\ response' = "raised"
    /\ UNCHANGED <<pc, result, contents, tools_called, pending, response_parts, final>>
    /\ UNCHANGED <<healthVars, swapVars, pureVars, coordVars, serviceVars>>

\* while iteration < self.max_iterations: iteration += 1; generate_content raises
ModelCallRaises ==
    /\ pc = "loop"
    /\ iteration < MaxIterations
    /\ iteration' = iteration + 1
    /\ model_calls' = model_calls + 1
    /\ response' = "raised"
    /\ result' = AgentSwapResult(<<>>, 50, "parse_error", <<>>, tools_called,
                                 iteration + 1, ApiError)
    /\ pc' = "done"
    /\ UNCHANGED <<contents, tools_called, pending, response_parts, final>>
    /\ UNCHANGED <<healthVars, swapVars, pureVars, coordVars, serviceVars>>

\* the response has no candidate, no content or no parts: break, and the
\* statements after the loop run
EmptyResponse ==
    /\ pc = "loop"
    /\ iteration < MaxIterations
    /\ iteration' = iteration + 1
    /\ model_calls' = model_calls + 1
    /\ response' = "empty"
    /\ result' = AgentSwapResult(<<>>, 50, "partial", <<>>, tools_called,
                                 iteration + 1, LimitNote)
    /\ pc' = "done"
    /\ UNCHANGED <<contents, tools_called, pending, response_parts, final>>
    /\ UNCHANGED <<healthVars, swapVars, pureVars, coordVars, serviceVars>>

\* the response has parts and none is a function call: the final text
FinalText(text, data) ==
    /\ pc = "loop"
    /\ iteration < MaxIterations
    /\ iteration' = iteration + 1
    /\ model_calls' = model_calls + 1
    /\ response' = "text"
    /\ contents' = Append(contents, ModelText(text))
    /\ final' = [given |-> TRUE, text |-> text, data |-> data]
    /\ LET out == ParseAgentResponse(text, data, tools_called, iteration + 1) IN
       /\ result' = out.result
       /\ pc' = IF out.raised THEN "raised" ELSE "done"
    /\ UNCHANGED <<tools_called, pending, response_parts>>
    /\ UNCHANGED <<healthVars, swapVars, pureVars, coordVars, serviceVars>>

\* the response has function calls: it is appended and the calls are executed
ToolCallResponse(calls) ==
    /\ pc = "loop"
    /\ iteration < MaxIterations
    /\ iteration' = iteration + 1
    /\ model_calls' = model_calls + 1
    /\ response' = "calls"
    /\ contents' = Append(contents, ModelCalls([i \in 1..Len(calls) |-> calls[i].name]))
    /\ pending' = calls
    /\ response_parts' = <<>>
    /\ pc' = "tools"
    /\ UNCHANGED <<tools_called, result, final>>
    /\ UNCHANGED <<healthVars, swapVars, pureVars, coordVars, serviceVars>>

\* mutant: a name is recorded only when it has a handler
ExecuteNextTool_KnownOnly ==
    /\ pc = "tools"
    /\ pending # <<>>
    /\ LET fc == Head(pending) IN
       /\ tools_called' = IF fc.name \in KnownTools
                          THEN Append(tools_called, fc.name) ELSE tools_called
       /\ response_parts' = Append(response_parts,
                                   [name |-> fc.name, response |-> ExecuteTool(fc)])
    /\ pending' = Tail(pending)
    /\ pc' = IF Tail(pending) = <<>> THEN "batch" ELSE "tools"
    /\ UNCHANGED <<iteration, contents, result, response, model_calls, final>>
    /\ UNCHANGED <<healthVars, swapVars, pureVars, coordVars, serviceVars>>

\* one pass of for part in function_calls
ExecuteNextTool ==
    /\ pc = "tools"
    /\ pending # <<>>
    /\ LET fc == Head(pending) IN
       /\ tools_called' = Append(tools_called, fc.name)
       /\ response_parts' = Append(response_parts,
                                   [name |-> fc.name, response |-> ExecuteTool(fc)])
    /\ pending' = Tail(pending)
    /\ pc' = IF Tail(pending) = <<>> THEN "batch" ELSE "tools"
    /\ UNCHANGED <<iteration, contents, result, response, model_calls, final>>
    /\ UNCHANGED <<healthVars, swapVars, pureVars, coordVars, serviceVars>>

\* mutant: every function response is appended as a user turn of its own
AppendToolResults_OneTurnPerResult ==
    /\ pc = "batch"
    /\ contents' = contents \o [j \in 1..Len(response_parts) |->
                                   ToolResults(<<response_parts[j]>>)]
    /\ pc' = "loop"
    /\ UNCHANGED <<iteration, tools_called, pending, response_parts, result,
                   response, model_calls, final>>
    /\ UNCHANGED <<healthVars, swapVars, pureVars, coordVars, serviceVars>>

\* contents.append(types.Content(role="user", parts=function_response_parts))
AppendToolResults ==
    /\ pc = "batch"
    /\ contents' = Append(contents, ToolResults(response_parts))
    /\ pc' = "loop"
    /\ UNCHANGED <<iteration, tools_called, pending, response_parts, result,
                   response, model_calls, final>>
    /\ UNCHANGED <<healthVars, swapVars, pureVars, coordVars, serviceVars>>

\* mutant: data_completeness is left to the default of the field, "minimal"
HitMaxIterations_DefaultCompleteness ==
    /\ pc = "loop"
    /\ ~(iteration < MaxIterations)
    /\ result' = AgentSwapResult(<<>>, 50, "minimal", <<>>, tools_called,
                                 iteration, LimitNote)
    /\ pc' = "done"
    /\ UNCHANGED <<iteration, contents, tools_called, pending, response_parts,
                   response, model_calls, final>>
    /\ UNCHANGED <<healthVars, swapVars, pureVars, coordVars, serviceVars>>

\* the loop condition fails: "Hit max iterations"
HitMaxIterations ==
    /\ pc = "loop"
    /\ ~(iteration < MaxIterations)
    /\ result' = AgentSwapResult(<<>>, 50, "partial", <<>>, tools_called,
                                 iteration, LimitNote)
    /\ pc' = "done"
    /\ UNCHANGED <<iteration, contents, tools_called, pending, response_parts,
                   response, model_calls, final>>
    /\ UNCHANGED <<healthVars, swapVars, pureVars, coordVars, serviceVars>>

SomeFinalText ==
    /\ pc = "loop"
    /\ iteration < MaxIterations
    /\ \E text \in AgentTexts :
        \E data \in DecodedObjects(text, AgentObjects) : FinalText(text, data)

CallBatches == SeqsUpTo(FunctionCalls, MaxCallsPerTurn) \ {<<>>}
SomeToolCallResponse ==
    /\ pc = "loop"
    /\ iteration < MaxIterations
    /\ \E calls \in CallBatches : ToolCallResponse(calls)

NextAgent ==
    \/ ModelCallRaises
    \/ EmptyResponse
    \/ SomeFinalText
    \/ SomeToolCallResponse
    \/ ExecuteNextTool
    \/ AppendToolResults
    \/ HitMaxIterations

SpecAgent == InitAgent /\ [][NextAgent]_vars

(***************************************************************************)
(* _parse_agent_response called on its own: run hands it the final text,   *)
(* tools_called and iteration, and returns what it returns.                *)
(***************************************************************************)
InitParse ==
    /\ PureIdle
    /\ ServiceIdle
    /\ CoordIdle
    /\ pc = "idle"
    /\ iteration = 0
    /\ contents = <<>>
    /\ tools_called = <<>>
    /\ pending = <<>>
    /\ response_parts = <<>>
    /\ result = NoResult
    /\ response = "none"
    /\ model_calls = 0
    /\ final = NoFinal
    /\ HealthIdle
    /\ SwapIdle

ParseCall(text, data, apis, iters) ==
    /\ pc = "idle"
    /\ final' = [given |-> TRUE, text |-> text, data |-> data]
    /\ tools_called' = apis
    /\ iteration' = iters
    /\ LET out == ParseAgentResponse(text, data, apis, iters) IN
       /\ result' = out.result
       /\ pc' = IF out.raised THEN "raised" ELSE "done"
    /\ UNCHANGED <<contents, pending, response_parts, response, model_calls>>
    /\ UNCHANGED <<healthVars, swapVars, pureVars, coordVars, serviceVars>>

BareObject == <<"{", "k", "v", "}">>

\* every text up to MaxTextLen tokens
ParseSomeText ==
    /\ pc = "idle"
    /\ \E text \in Texts :
        \E data \in DecodedObjects(text, AgentObjects) :
            ParseCall(text, data, <<>>, 1)

\* every "substitutions" list up to MaxSubs entries
ParseSomeSubstitutions ==
    /\ pc = "idle"
    /\ \E items \in SeqsUpTo(Entries, MaxSubs) :
        \E c \in {Num(82), Num(150)} :
            ParseCall(BareObject,
                      [substitutions |-> SubsList(items), overall_confidence |-> c,
                       data_completeness |-> Str("full"),
                       no_substitute_ingredients |-> NoList],
                      <<"flavordb_get_entity_by_name">>, 2)

\* every combination of the top-level members
TopLevelObjects ==
    {[substitutions |-> s, overall_confidence |-> c, data_completeness |-> d,
      no_substitute_ingredients |-> n] :
        s \in {NoSubsKey, NullSubs, SubsList(<<>>), SubsList(<<GoodEntry>>)},
        c \in {Absent, Null, Num(0), Num(82), Num(100), Num(150), Num(-10),
               Str("high"), Str("0.8")},
        d \in {Absent, Null, Str("full"), Str("partial"), Str("minimal"),
               Str("parse_error"), Str("complete"), Str("")},
        n \in {NoList, NullList, StrList(<<>>), StrList(<<"flour">>)}}
ParseSomeObject ==
    /\ pc = "idle"
    /\ \E data \in TopLevelObjects :
        ParseCall(BareObject, data, <<"unknown_tool">>, 3)

NextParse ==
    \/ ParseSomeText
    \/ ParseSomeSubstitutions
    \/ ParseSomeObject

SpecParse == InitParse /\ [][NextParse]_vars

(***************************************************************************)
(* HealthScorer.  Nutrient amounts are in tenths of their unit (350 kcal   *)
(* is 3500, 0.5 g is 5); percentages and points are in thousandths.        *)
(***************************************************************************)
AgentOff ==
    /\ pc = "off"
    /\ iteration = 0
    /\ contents = <<>>
    /\ tools_called = <<>>
    /\ pending = <<>>
    /\ response_parts = <<>>
    /\ result = NoResult
    /\ response = "none"
    /\ model_calls = 0
    /\ final = NoFinal

\* round(x, 2) of a value in thousandths
Round2(x) == ((x + 5) \div 10) * 10

\* nutrition_data.get(key, 0)
GetOr0(v) == IF v = NoValue THEN 0 ELSE v

\* RATING_THRESHOLDS, utils/constants.py
ThresholdExcellent == 80000
ThresholdGood == 60000
ThresholdDecent == 40000
ThresholdBad == 20000

\* mutant: the comparisons are strict
AssignRating_Strict(score) ==
    IF score > ThresholdExcellent THEN "Excellent"
    ELSE IF score > ThresholdGood THEN "Good"
    ELSE IF score > ThresholdDecent THEN "Decent"
    ELSE IF score > ThresholdBad THEN "Bad"
    ELSE "Poor"

\* HealthScorer.assign_rating
AssignRating(score) ==
    IF score >= ThresholdExcellent THEN "Excellent"
    ELSE IF score >= ThresholdGood THEN "Good"
    ELSE IF score >= ThresholdDecent THEN "Decent"
    ELSE IF score >= ThresholdBad THEN "Bad"
    ELSE "Poor"

\* HealthScore(score=..., rating=...): TRUE when a validator raises
\* (Field ge/le, validate_rating, validate_score_rating_consistency)
HealthScoreRejects(score, rating) ==
    \/ score < 0 \/ score > 100000
    \/ rating \notin {"Excellent", "Good", "Decent", "Bad", "Poor"}
    \/ IF score >= 80000 /\ rating # "Excellent" THEN TRUE
       ELSE IF 60000 <= score /\ score < 80000 /\ rating # "Good" THEN TRUE
       ELSE IF 40000 <= score /\ score < 60000 /\ rating # "Decent" THEN TRUE
       ELSE IF 20000 <= score /\ score < 40000 /\ rating # "Bad" THEN TRUE
       ELSE IF score < 20000 /\ rating # "Poor" THEN TRUE
       ELSE FALSE

\* calculate_percentage_of_calories: raises ValueError when total_calories
\* is not positive; factor is 4 for protein and carbs, 9 for fat
PercentageOfCalories(grams, factor, total_calories) ==
    IF total_calories <= 0 THEN [raised |-> TRUE, value |-> 0]
    ELSE [raised |-> FALSE,
          value |-> Round2((grams * factor * 100 * 1000) \div total_calories)]

\* HealthScorer._score_nutrient_range
ScoreNutrientRange(value, min_val, max_val, max_points) ==
    IF min_val <= value /\ value <= max_val THEN max_points
    ELSE LET distance == IF value < min_val THEN min_val - value ELSE value - max_val
             tolerance == IF value < min_val THEN (min_val * 2) \div 10
                          ELSE (max_val * 2) \div 10
         IN IF distance <= tolerance
            THEN (max_points * (tolerance - distance)) \div tolerance
            ELSE 0

\* the calorie density part of score_macronutrients (threshold 500 kcal)
CalorieScore(calories) ==
    IF calories <= 5000 THEN 10000
    ELSE IF calories <= 7500 THEN (10000 * (2500 - (calories - 5000))) \div 2500
    ELSE 0

\* the scoring of score_macronutrients after its guard
MacroPoints(calories, protein, carbs, fat) ==
    LET p == PercentageOfCalories(protein, 4, calories)
        c == PercentageOfCalories(carbs, 4, calories)
        f == PercentageOfCalories(fat, 9, calories)
    IN [raised |-> p.raised \/ c.raised \/ f.raised,
        score |-> Round2(ScoreNutrientRange(p.value, 10000, 35000, 10000)
                         + ScoreNutrientRange(c.value, 45000, 65000, 10000)
                         + ScoreNutrientRange(f.value, 20000, 35000, 10000)
                         + CalorieScore(calories))]

\* mutant: the guard on calories is missing
ScoreMacronutrients_Unguarded(calories, protein, carbs, fat) ==
    MacroPoints(calories, protein, carbs, fat)

\* HealthScorer.score_macronutrients
ScoreMacronutrients(calories, protein, carbs, fat) ==
    IF calories <= 0 THEN [raised |-> FALSE, score |-> 0]
    ELSE MacroPoints(calories, protein, carbs, fat)

\* HealthScorer.score_micronutrients.  micro_nutrition is the merged dict
\* {**vitamins, **minerals} as a sequence of [rda, value]; rda = 0 stands
\* for a name that RDA_VALUES does not hold.
RECURSIVE MicroPoints(_)
MicroPoints(nutrients) ==
    IF nutrients = <<>> THEN 0
    ELSE LET n == Head(nutrients)
             percent_rda == IF n.rda <= 0 THEN 0 ELSE (n.value * 100 * 1000) \div n.rda
         IN (IF n.rda <= 0 THEN 0
             ELSE IF percent_rda >= 100000 THEN 2000
             ELSE IF percent_rda >= 50000 THEN 1000
             ELSE 0) + MicroPoints(Tail(nutrients))
ScoreMicronutrients(nutrients) == Round2(Min(MicroPoints(nutrients), 30000))

\* HealthScorer.score_negative_factors (NEGATIVE_FACTOR_THRESHOLDS)
ScoreNegativeFactors(n) ==
    LET penalty ==
            (IF GetOr0(n.sodium) > 4000 THEN -5000 ELSE 0)
          + (IF GetOr0(n.sugar) > 250 THEN -5000 ELSE 0)
          + (IF GetOr0(n.saturated_fat) > 100 THEN -5000 ELSE 0)
          + (IF GetOr0(n.trans_fat) > 5 THEN -10000 ELSE 0)
          + (IF GetOr0(n.cholesterol) > 1000 THEN -5000 ELSE 0)
    IN Round2(Max(penalty, -30000))

\* _check_protein_balance, _check_carb_balance, _check_fat_balance: TRUE
\* when building the breakdown raises
CheckBalanceRaises(calories, grams, factor) ==
    IF calories <= 0 THEN FALSE
    ELSE PercentageOfCalories(grams, factor, calories).raised

\* HealthScorer.calculate_health_score
CalculateHealthScore(n, micro) ==
    LET calories == GetOr0(n.calories)
        protein == GetOr0(n.protein)
        carbs == GetOr0(n.carbs)
        fat == GetOr0(n.fat)
        macro == ScoreMacronutrients(calories, protein, carbs, fat)
        micro_score == ScoreMicronutrients(micro)
        negative_score == ScoreNegativeFactors(n)
        raw_score == macro.score + micro_score + negative_score
        max_possible == 40000 + 30000
        min_possible == -30000
        normalized_score == ((raw_score - min_possible) * 100) \div
                                ((max_possible - min_possible) \div 1000)
        final_score == Max(0, Min(100000, normalized_score))
        rating == AssignRating(final_score)
        breakdown == [macronutrient_score |-> Round2(macro.score),
                      micronutrient_score |-> Round2(micro_score),
                      negative_factors_penalty |-> Round2(negative_score),
                      raw_total |-> Round2(raw_score),
                      normalized_score |-> Round2(final_score)]
    IN IF \/ macro.raised
          \/ CheckBalanceRaises(calories, protein, 4)
          \/ CheckBalanceRaises(calories, carbs, 4)
          \/ CheckBalanceRaises(calories, fat, 9)
          \/ HealthScoreRejects(Round2(final_score), rating)
       THEN [raised |-> TRUE, score |-> 0, rating |-> "", breakdown |-> NoBreakdown]
       ELSE [raised |-> FALSE, score |-> Round2(final_score), rating |-> rating,
             breakdown |-> breakdown]

(***************************************************************************)
(* The scorer applied to inputs drawn from bounded sets                    *)
(***************************************************************************)
MaxCalSteps == 4      \* calories up to MaxCalSteps * 200 kcal
MaxGramSteps == 3     \* protein, carbs, fat up to MaxGramSteps * 10 g
MaxAdequate == 16     \* micronutrients at or above their RDA
MaxScoreSteps == 10   \* scores on a grid of 100 / MaxScoreSteps points

CaloriesValues == {NoValue, 0} \cup {k * 2000 : k \in 1..MaxCalSteps}
GramValues == {NoValue} \cup {k * 100 : k \in 0..MaxGramSteps}

NegativeProfile(sat, trans, sod, sug, chol) ==
    [saturated_fat |-> sat, trans_fat |-> trans, sodium |-> sod, sugar |-> sug,
     cholesterol |-> chol]
NegativeProfiles ==
    { NegativeProfile(NoValue, NoValue, NoValue, NoValue, NoValue),
      NegativeProfile(100, 5, 4000, 250, 1000),       \* each at its threshold
      NegativeProfile(101, 6, 4001, 251, 1001),       \* each above it
      NegativeProfile(101, NoValue, 0, 0, 0),
      NegativeProfile(0, 6, NoValue, 0, 0),
      NegativeProfile(0, 0, 4001, NoValue, 0),
      NegativeProfile(0, 0, 0, 251, NoValue),
      NegativeProfile(NoValue, 0, 0, 0, 1001) }

NutritionRecords ==
    { Nutrition(cal, p, c, f, n.saturated_fat, n.trans_fat, n.sodium, n.sugar,
                n.cholesterol, NoValue) :
        cal \in CaloriesValues, p \in GramValues, c \in GramValues, f \in GramValues,
        n \in NegativeProfiles }

\* vitamins and minerals: adequate of them at 100% of the RDA, half of them
\* at 50%, unknown of them with a name that RDA_VALUES does not hold
Micro(adequate, half, unknown) ==
    [i \in 1..adequate |-> [rda |-> 100, value |-> 100]]
    \o [i \in 1..half |-> [rda |-> 100, value |-> 50]]
    \o [i \in 1..unknown |-> [rda |-> 0, value |-> 100]]
MicroRecords ==
    { Micro(a, h, u) : a \in {0, 1, MaxAdequate}, h \in {0, 1}, u \in {0, 1} }

Ratings == {"Excellent", "Good", "Decent", "Bad", "Poor"}
ScoreValues ==
    {k * (100000 \div MaxScoreSteps) : k \in 0..MaxScoreSteps}
    \cup {t + d : t \in {ThresholdBad, ThresholdDecent, ThresholdGood,
                         ThresholdExcellent}, d \in {-10, 0, 10}}
    \cup {-10, 100010}
ScoreArgs == [score : ScoreValues, rating : Ratings \cup {"Bogus"}]

InitHealth ==
    /\ PureIdle
    /\ ServiceIdle
    /\ CoordIdle
    /\ AgentOff
    /\ SwapIdle
    /\ h_op = "none"
    /\ health_score = NoHealthScore
    /\ \/ /\ h_args \in ScoreArgs
          /\ nutrition_data = NoNutrition
          /\ micro_nutrition = <<>>
       \/ /\ h_args = NoArgs
          /\ nutrition_data \in NutritionRecords
          /\ micro_nutrition \in MicroRecords

\* scorer.calculate_health_score(nutrition_data, micro_nutrition)
CalculateCall ==
    /\ h_op = "none"
    /\ h_args = NoArgs
    /\ h_op' = "calculate"
    /\ health_score' = CalculateHealthScore(nutrition_data, micro_nutrition)
    /\ UNCHANGED <<h_args, nutrition_data, micro_nutrition, agentVars, swapVars, pureVars, coordVars, serviceVars>>

\* scorer.assign_rating(score)
AssignRatingCall ==
    /\ h_op = "none"
    /\ h_args # NoArgs
    /\ h_op' = "assign"
    /\ health_score' = [raised |-> FALSE, score |-> h_args.score,
                        rating |-> AssignRating(h_args.score),
                        breakdown |-> NoBreakdown]
    /\ UNCHANGED <<h_args, nutrition_data, micro_nutrition, agentVars, swapVars, pureVars, coordVars, serviceVars>>

\* HealthScore(score=score, rating=rating)
ConstructCall ==
    /\ h_op = "none"
    /\ h_args # NoArgs
    /\ h_op' = "construct"
    /\ health_score' = [raised |-> HealthScoreRejects(h_args.score, h_args.rating),
                        score |-> h_args.score, rating |-> h_args.rating,
                        breakdown |-> NoBreakdown]
    /\ UNCHANGED <<h_args, nutrition_data, micro_nutrition, agentVars, swapVars, pureVars, coordVars, serviceVars>>

NextHealth == CalculateCall \/ AssignRatingCall \/ ConstructCall
SpecHealth == InitHealth /\ [][NextHealth]_vars

(***************************************************************************)
(* SwapEngine.  Weights are in thousandths (0.6 is 600); flavor_match,     *)
(* health_improvement, semantic scores and health scores are in tenths of  *)
(* a point; a rank_score is a product of the two (100.0 is 1000000).       *)
(*                                                                         *)
(* An ingredient name is a sequence of words.  While a name is being       *)
(* normalised, "" stands where a word was removed: the white space around  *)
(* it stays until the spaces are collapsed.                                *)
(***************************************************************************)
Gap == ""

\* str.lower, on the words of the vocabulary
Lower(w) ==
    CASE w = "Fresh" -> "fresh"
      [] w = "Butter" -> "butter"
      [] w = "Olive" -> "olive"
      [] w = "Oil" -> "oil"
      [] OTHER -> w

NumberWords == {"2"}
UnitWords ==
    {"cup", "cups", "tablespoon", "tablespoons", "tbsp", "teaspoon", "teaspoons",
     "tsp", "ounce", "ounces", "oz", "pound", "pounds", "lb", "lbs", "gram", "grams",
     "g", "kilogram", "kilograms", "kg", "milliliter", "milliliters", "ml", "liter",
     "liters", "l", "pinch", "dash", "can", "cans", "package", "packages", "pkg"}
\* prep_words before and after 'extra virgin', in the order of the list
PrepWordsBefore ==
    {"fresh", "frozen", "dried", "canned", "chopped", "diced", "minced", "sliced",
     "grated", "shredded", "ground", "whole", "raw", "cooked", "large", "small",
     "medium", "ripe", "boneless", "skinless", "organic"}
PrepWordsAfter == {"unsalted", "salted", "plain"}

\* the quantity pattern: a number and the unit that follows it
RemoveQuantities(s) ==
    [i \in 1..Len(s) |->
        IF \/ s[i] \in NumberWords /\ i < Len(s) /\ s[i + 1] \in UnitWords
           \/ s[i] \in UnitWords /\ i > 1 /\ s[i - 1] \in NumberWords
        THEN Gap ELSE s[i]]
\* re.sub of one-word patterns
RemoveWords(s, words) == [i \in 1..Len(s) |-> IF s[i] \in words THEN Gap ELSE s[i]]
\* re.sub of 'extra virgin': the two words with one space between them
RemoveExtraVirgin(s) ==
    [i \in 1..Len(s) |->
        IF \/ s[i] = "extra" /\ i < Len(s) /\ s[i + 1] = "virgin"
           \/ s[i] = "virgin" /\ i > 1 /\ s[i - 1] = "extra"
        THEN Gap ELSE s[i]]
\* re.sub(r'[^a-z\s-]', '', ...) on one word: a digit inside a word is not a
\* standalone number and is only removed here
RemoveSpecial(w) == IF w = "fre5sh" THEN "fresh" ELSE w
\* collapsing the spaces and stripping the ends
CollapseSpaces(s) == SelectSeq(s, LAMBDA w : w # Gap)

\* normalize_ingredient_name
NormalizeIngredientName(ingredient) ==
    IF ingredient = <<>> THEN <<>>
    ELSE LET lowered == [i \in 1..Len(ingredient) |-> Lower(ingredient[i])]
             quantities == RemoveQuantities(lowered)
             numbers == RemoveWords(quantities, NumberWords)
             prep1 == RemoveWords(numbers, PrepWordsBefore)
             prep2 == RemoveExtraVirgin(prep1)
             prep3 == RemoveWords(prep2, PrepWordsAfter)
             special == [i \in 1..Len(prep3) |-> RemoveSpecial(prep3[i])]
         IN CollapseSpaces(special)

\* key in normalized, for names whose words hold no key as a proper part
Contains(key, s) ==
    \E i \in 0..(Len(s) - Len(key)) : SubSeq(s, i + 1, i + Len(key)) = key

\* improvement_estimates of _estimate_health_improvement, in dict order
ImprovementEstimates ==
    << [key |-> <<"olive", "oil">>, estimate |-> 80],
       [key |-> <<"avocado", "oil">>, estimate |-> 80],
       [key |-> <<"coconut", "oil">>, estimate |-> 50],
       [key |-> <<"honey">>, estimate |-> 30],
       [key |-> <<"maple", "syrup">>, estimate |-> 30],
       [key |-> <<"stevia">>, estimate |-> 70],
       [key |-> <<"monk", "fruit">>, estimate |-> 70],
       [key |-> <<"almond", "milk">>, estimate |-> 60],
       [key |-> <<"oat", "milk">>, estimate |-> 50],
       [key |-> <<"coconut", "milk">>, estimate |-> 40],
       [key |-> <<"soy", "milk">>, estimate |-> 60],
       [key |-> <<"brown", "rice">>, estimate |-> 70],
       [key |-> <<"quinoa">>, estimate |-> 80],
       [key |-> <<"whole", "wheat", "flour">>, estimate |-> 60],
       [key |-> <<"almond", "flour">>, estimate |-> 70],
       [key |-> <<"oat", "flour">>, estimate |-> 60],
       [key |-> <<"default">>, estimate |-> 50] >>
DefaultEstimate == 50

\* mutant: the scaled estimate is returned without the cap
EstimateHealthImprovement_NoCap(substitute_ingredient, current_score) ==
    LET normalized == NormalizeIngredientName(substitute_ingredient)
        matching == SelectSeq(ImprovementEstimates,
                              LAMBDA e : Contains(e.key, normalized))
        improvement == IF matching = <<>> THEN DefaultEstimate
                       ELSE Head(matching).estimate
        scaled == IF current_score < 300 THEN (improvement * 15) \div 10
                  ELSE IF current_score < 500 THEN (improvement * 12) \div 10
                  ELSE IF current_score > 700 THEN (improvement * 8) \div 10
                  ELSE improvement
    IN scaled

\* SwapEngine._estimate_health_improvement
EstimateHealthImprovement(substitute_ingredient, current_score) ==
    LET normalized == NormalizeIngredientName(substitute_ingredient)
        matching == SelectSeq(ImprovementEstimates,
                              LAMBDA e : Contains(e.key, normalized))
        improvement == IF matching = <<>> THEN DefaultEstimate
                       ELSE Head(matching).estimate
        scaled == IF current_score < 300 THEN (improvement * 15) \div 10
                  ELSE IF current_score < 500 THEN (improvement * 12) \div 10
                  ELSE IF current_score > 700 THEN (improvement * 8) \div 10
                  ELSE improvement
    IN Min(scaled, 1000 - current_score)

\* SubstituteOption(...): TRUE when a Field bound rejects the values
SubstituteOptionRejects(flavor_match, health_improvement, rank_score) ==
    \/ flavor_match < 0 \/ flavor_match > 1000
    \/ health_improvement < 0
    \/ rank_score < 0 \/ rank_score > 1000000

\* the candidates of the model, and the ingredient they replace
Pool ==
    << <<"olive", "oil">>, <<"honey">>, <<"tofu">>, <<"Fresh", "Butter">>,
       <<"quinoa">>, <<"extra", "virgin", "olive", "oil">>, <<"stevia">>,
       <<"2", "cups", "whole", "wheat", "flour">>, <<"coconut", "oil">>,
       <<"ghee">>, <<"avocado">>, <<"avocado", "oil">>, <<"applesauce">>,
       <<"ground", "turkey">>, <<"ground", "chicken">>, <<"lentils">>,
       <<"turkey", "bacon">>, <<"tempeh", "bacon">>, <<"chicken", "sausage">>,
       <<"turkey", "sausage">>, <<"Olive", "Oil">>, <<"maple", "syrup">>,
       <<"monk", "fruit">>, <<"coconut", "sugar">>, <<"date", "sugar">>,
       <<"agave", "nectar">> >>
IndexInPool(name) == CHOOSE i \in 1..Len(Pool) : Pool[i] = name

\* what FlavorDBService.calculate_flavor_similarity gives for a candidate:
\* a percentage, or FlavorRaises when the lookup throws
FlavorRaises == -1
FlavorTables == {"rising", "falling", "equal", "failing", "down"}
FlavorSimilarity(table, candidate) ==
    LET i == IndexInPool(candidate) IN
    CASE table = "rising" -> 100 * (i % 10)
      [] table = "falling" -> 1000 - 100 * (i % 10)
      [] table = "equal" -> 500
      [] table = "failing" -> IF i % 2 = 1 THEN FlavorRaises ELSE 500
      [] OTHER -> FlavorRaises

\* a function on 1..n as a list
AsList(f) == SubSeq(f, 1, Len(f))

\* sorted(..., key=score, reverse=True): stable, highest first.  The pair at
\* place p has p - 1 pairs before it: those of a higher score and those of
\* the same score that came earlier.
SortByScore(s) ==
    LET Before(i) == Cardinality({j \in 1..Len(s) :
                         \/ s[j].score > s[i].score
                         \/ s[j].score = s[i].score /\ j < i})
    IN AsList([p \in 1..Len(s) |-> s[CHOOSE i \in 1..Len(s) : Before(i) = p - 1]])

\* compute_similarity_scores: [] when there are no candidates, when
\* sentence-transformers cannot be imported ("unavailable") or when encoding
\* fails, else one pair per candidate.  With "load_error" _get_model throws
\* something other than ImportError, which no handler catches.
SemanticBackends == {"unavailable", "load_error", "rising", "falling"}
SimilarityRaises(backend, candidates) == candidates # <<>> /\ backend = "load_error"
ComputeSimilarityScores(backend, candidates) ==
    IF candidates = <<>> \/ backend = "unavailable" THEN <<>>
    ELSE CHOOSE ranked \in
             { SortByScore(pairs) : pairs \in
                 { AsList([i \in 1..Len(candidates) |->
                     [name |-> candidates[i],
                      score |-> IF backend = "rising"
                                THEN 100 * (IndexInPool(candidates[i]) % 10)
                                ELSE 1000 - 100 * (IndexInPool(candidates[i]) % 10)]]) } } : TRUE

\* semantic_map.get(opt.name, 50.0)
SemanticScore(ranked_semantic, name) ==
    IF \E i \in 1..Len(ranked_semantic) : ranked_semantic[i].name = name
    THEN ranked_semantic[CHOOSE i \in 1..Len(ranked_semantic) :
                            ranked_semantic[i].name = name].score
    ELSE 500

\* substitute_options.sort(key=rank_score, reverse=True)
SortByRankScore(s) ==
    LET Before(i) == Cardinality({j \in 1..Len(s) :
                         \/ s[j].rank_score > s[i].rank_score
                         \/ s[j].rank_score = s[i].rank_score /\ j < i})
    IN AsList([p \in 1..Len(s) |-> s[CHOOSE i \in 1..Len(s) : Before(i) = p - 1]])

\* mutant: the exception of a candidate ends the loop over the candidates
RECURSIVE ScoreCandidates_AbortOnRaise(_, _, _, _, _)
ScoreCandidates_AbortOnRaise(e, candidates, original_name, table, current_health_score) ==
    IF candidates = <<>> THEN <<>>
    ELSE LET candidate == Head(candidates)
             rest == ScoreCandidates_AbortOnRaise(e, Tail(candidates), original_name, table,
                                     current_health_score)
             flavor_match == FlavorSimilarity(table, candidate)
             health_improvement ==
                 EstimateHealthImprovement(candidate, current_health_score)
             rank_score == flavor_match * e.flavor_weight
                           + health_improvement * e.health_weight
         IN IF NormalizeIngredientName(candidate) = NormalizeIngredientName(original_name)
            THEN rest
            ELSE IF flavor_match = FlavorRaises
            THEN <<>>
            ELSE IF SubstituteOptionRejects(flavor_match, health_improvement, rank_score)
            THEN rest
            ELSE <<[name |-> candidate, flavor_match |-> flavor_match,
                    health_improvement |-> health_improvement,
                    rank_score |-> rank_score]>> \o rest

\* the body of the loop over the candidates: the options appended
RECURSIVE ScoreCandidates(_, _, _, _, _)
ScoreCandidates(e, candidates, original_name, table, current_health_score) ==
    IF candidates = <<>> THEN <<>>
    ELSE LET candidate == Head(candidates)
             rest == ScoreCandidates(e, Tail(candidates), original_name, table,
                                     current_health_score)
             flavor_match == FlavorSimilarity(table, candidate)
             health_improvement ==
                 EstimateHealthImprovement(candidate, current_health_score)
             rank_score == flavor_match * e.flavor_weight
                           + health_improvement * e.health_weight
         IN IF NormalizeIngredientName(candidate) = NormalizeIngredientName(original_name)
            THEN rest
            ELSE IF \/ flavor_match = FlavorRaises
                    \/ SubstituteOptionRejects(flavor_match, health_improvement, rank_score)
            THEN rest
            ELSE <<[name |-> candidate, flavor_match |-> flavor_match,
                    health_improvement |-> health_improvement,
                    rank_score |-> rank_score]>> \o rest

\* the semantic re-ranking: the rank_score of every option is replaced
Rerank(e, substitute_options, ranked_semantic) ==
    AsList([i \in 1..Len(substitute_options) |->
        [substitute_options[i] EXCEPT !.rank_score =
            substitute_options[i].flavor_match * e.flavor_weight
            + substitute_options[i].health_improvement * e.health_weight
            + SemanticScore(ranked_semantic, substitute_options[i].name)
                * e.semantic_weight]])

MaxCandidates == 8    \* length of the list given to rank_substitutes
MaxWeightSteps == 3   \* semantic_weight up to MaxWeightSteps * 0.3

RECURSIVE Reverse(_)
Reverse(s) == IF s = <<>> THEN <<>> ELSE Append(Reverse(Tail(s)), Head(s))
CandidateLists ==
    UNION { {SubSeq(Pool, 1, Min(n, Len(Pool))),
             Reverse(SubSeq(Pool, 1, Min(n, Len(Pool))))} : n \in 0..MaxCandidates }
SemanticWeights == {100} \cup {Min(k * 300, 1000) : k \in 0..MaxWeightSteps}
CurrentScores == {250, 450, 600, 750, 1000}
OriginalNames == {<<"butter">>, <<>>}

InitSwap ==
    /\ PureIdle
    /\ ServiceIdle
    /\ CoordIdle
    /\ found = NoFound
    /\ AgentOff
    /\ HealthIdle
    /\ engine = NoEngine
    /\ ranking = NoRanking

\* SwapEngine.__init__
Construct(use_semantic_rerank, semantic_weight) ==
    /\ ~engine.constructed
    /\ engine' = [constructed |-> TRUE,
                  use_semantic_rerank |-> use_semantic_rerank,
                  semantic_weight |-> semantic_weight,
                  flavor_weight |-> IF use_semantic_rerank THEN 600 - semantic_weight
                                    ELSE 600,
                  health_weight |-> 400]
    /\ UNCHANGED <<ranking, found, agentVars, healthVars, pureVars, coordVars, serviceVars>>

\* the body of SwapEngine.rank_substitutes: what the call leaves in ranking;
\* each \E names a local of the method
\* mutant: the options are sorted before the semantic re-ranking
Rank_SortBeforeRerank(candidates, original_name, current_health_score, table, backend) ==
    \E substitute_options \in
         {ScoreCandidates(engine, candidates, original_name, table,
                          current_health_score)} :
    \E names \in {AsList([i \in 1..Len(substitute_options) |->
                             substitute_options[i].name])} :
    \E raised \in {engine.use_semantic_rerank /\ SimilarityRaises(backend, names)} :
    \E ranked_semantic \in
         {IF engine.use_semantic_rerank /\ substitute_options # <<>> /\ ~raised
          THEN ComputeSimilarityScores(backend, names)
          ELSE <<>>} :
    \E sorted \in {SortByRankScore(substitute_options)} :
    \E scored \in
         {IF ranked_semantic # <<>>
          THEN Rerank(engine, sorted, ranked_semantic)
          ELSE sorted} :
       ranking' = [called |-> TRUE, raised |-> raised, candidates |-> candidates,
                   original_name |-> original_name,
                   current_health_score |-> current_health_score,
                   flavor |-> table, semantic |-> backend,
                   semantic_applied |-> ranked_semantic # <<>>,
                   scored |-> scored,
                   options |-> IF raised THEN <<>>
                               ELSE SubSeq(scored, 1, Min(5, Len(scored)))]

\* the body of rank_substitutes
Rank(candidates, original_name, current_health_score, table, backend) ==
    \E substitute_options \in
         {ScoreCandidates(engine, candidates, original_name, table,
                          current_health_score)} :
    \E names \in {AsList([i \in 1..Len(substitute_options) |->
                             substitute_options[i].name])} :
    \E raised \in {engine.use_semantic_rerank /\ SimilarityRaises(backend, names)} :
    \E ranked_semantic \in
         {IF engine.use_semantic_rerank /\ substitute_options # <<>> /\ ~raised
          THEN ComputeSimilarityScores(backend, names)
          ELSE <<>>} :
    \E scored \in
         {IF ranked_semantic # <<>>
          THEN Rerank(engine, substitute_options, ranked_semantic)
          ELSE substitute_options} :
    \E sorted \in {SortByRankScore(scored)} :
       ranking' = [called |-> TRUE, raised |-> raised, candidates |-> candidates,
                   original_name |-> original_name,
                   current_health_score |-> current_health_score,
                   flavor |-> table, semantic |-> backend,
                   semantic_applied |-> ranked_semantic # <<>>,
                   scored |-> scored,
                   options |-> IF raised THEN <<>>
                               ELSE SubSeq(sorted, 1, Min(5, Len(sorted)))]

\* SwapEngine.rank_substitutes
RankSubstitutes(candidates, original_name, current_health_score, table, backend) ==
    /\ engine.constructed
    /\ ~ranking.called
    /\ Rank(candidates, original_name, current_health_score, table, backend)
    /\ UNCHANGED <<engine, found, agentVars, healthVars, pureVars, coordVars, serviceVars>>

(***************************************************************************)
(* SwapEngine.find_substitutes: candidate discovery, filtering and ranking *)
(***************************************************************************)
\* INGREDIENT_CATEGORY_KEYWORDS, in dict order
IngredientCategoryKeywords ==
    << [category |-> "oil",
        keywords |-> {"oil", "butter", "ghee", "margarine", "shortening", "lard", "fat"}],
       [category |-> "sweetener",
        keywords |-> {"sugar", "honey", "syrup", "stevia", "sweetener", "molasses",
                      "agave", "fructose", "glucose"}],
       [category |-> "dairy",
        keywords |-> {"milk", "cream", "cheese", "yogurt", "butter", "dairy"}],
       [category |-> "grain",
        keywords |-> {"rice", "flour", "bread", "pasta", "wheat", "oat", "quinoa",
                      "barley", "grain"}],
       [category |-> "protein",
        keywords |-> {"chicken", "beef", "pork", "fish", "turkey", "lamb", "tofu",
                      "tempeh", "egg", "bean", "lentil"}],
       [category |-> "vegetable",
        keywords |-> {"carrot", "broccoli", "spinach", "tomato", "onion", "garlic",
                      "pepper", "lettuce", "cabbage", "kale", "vegetable"}],
       [category |-> "fruit",
        keywords |-> {"apple", "banana", "orange", "berry", "grape", "melon", "fruit"}],
       [category |-> "spice",
        keywords |-> {"salt", "pepper", "cumin", "paprika", "oregano", "basil",
                      "thyme", "cinnamon", "spice", "herb"}],
       [category |-> "condiment",
        keywords |-> {"sauce", "ketchup", "mustard", "mayo", "mayonnaise", "dressing"}] >>

\* categorize_ingredient: the first category one of whose keywords is in the
\* name, for names whose words hold no keyword as a proper part
CategorizeIngredient(ingredient) ==
    LET lowered == [i \in 1..Len(ingredient) |-> Lower(ingredient[i])]
        Matches(k) == \E i \in 1..Len(lowered) :
                         lowered[i] \in IngredientCategoryKeywords[k].keywords
    IN IF \E k \in 1..Len(IngredientCategoryKeywords) : Matches(k)
       THEN IngredientCategoryKeywords[
                CHOOSE k \in 1..Len(IngredientCategoryKeywords) :
                    Matches(k) /\ \A j \in 1..(k - 1) : ~Matches(j)].category
       ELSE "other"

\* HEALTHY_SWAPS[category] in dict order, for the categories of RiskyNames;
\* "vegetable" and "other" have no table
HealthySwaps(category) ==
    CASE category = "oil" ->
           << [key |-> <<"vegetable", "oil">>,
               alts |-> << <<"olive", "oil">>, <<"avocado", "oil">>, <<"coconut", "oil">> >>],
              [key |-> <<"butter">>,
               alts |-> << <<"ghee">>, <<"olive", "oil">>, <<"avocado">>,
                           <<"coconut", "oil">> >>],
              [key |-> <<"margarine">>,
               alts |-> << <<"olive", "oil">>, <<"avocado", "oil">> >>],
              [key |-> <<"shortening">>,
               alts |-> << <<"coconut", "oil">>, <<"applesauce">> >>],
              [key |-> <<"lard">>,
               alts |-> << <<"olive", "oil">>, <<"avocado", "oil">> >>] >>
      [] category = "sweetener" ->
           << [key |-> <<"sugar">>,
               alts |-> << <<"honey">>, <<"maple", "syrup">>, <<"stevia">>,
                           <<"monk", "fruit">> >>],
              [key |-> <<"white", "sugar">>,
               alts |-> << <<"coconut", "sugar">>, <<"date", "sugar">>, <<"honey">> >>],
              [key |-> <<"brown", "sugar">>,
               alts |-> << <<"coconut", "sugar">>, <<"maple", "syrup">>,
                           <<"date", "sugar">> >>],
              [key |-> <<"corn", "syrup">>,
               alts |-> << <<"honey">>, <<"maple", "syrup">>, <<"agave", "nectar">> >>],
              [key |-> <<"high", "fructose", "corn", "syrup">>,
               alts |-> << <<"honey">>, <<"maple", "syrup">> >>] >>
      [] category = "protein" ->
           << [key |-> <<"ground", "beef">>,
               alts |-> << <<"ground", "turkey">>, <<"ground", "chicken">>,
                           <<"lentils">> >>],
              [key |-> <<"bacon">>,
               alts |-> << <<"turkey", "bacon">>, <<"tempeh", "bacon">> >>],
              [key |-> <<"sausage">>,
               alts |-> << <<"chicken", "sausage">>, <<"turkey", "sausage">> >>] >>
      [] OTHER -> <<>>

\* the de-dup loops: the first name of every normalized name, in order
RECURSIVE Unique(_, _)
Unique(names, seen) ==
    IF names = <<>> THEN <<>>
    ELSE LET na == NormalizeIngredientName(Head(names))
         IN IF na \in seen THEN Unique(Tail(names), seen)
            ELSE <<Head(names)>> \o Unique(Tail(names), seen \cup {na})

\* partial.extend(alts) over the keys that match, all_alts.extend(alts) over all
RECURSIVE ExtendAlts(_, _)
ExtendAlts(category_swaps, matching) ==
    IF category_swaps = <<>> THEN <<>>
    ELSE (IF Head(category_swaps).key \in matching THEN Head(category_swaps).alts ELSE <<>>)
         \o ExtendAlts(Tail(category_swaps), matching)

ExactKey(category_swaps, ingredient_name) ==
    \E k \in 1..Len(category_swaps) : category_swaps[k].key = ingredient_name
Keys(category_swaps) == {category_swaps[k].key : k \in 1..Len(category_swaps)}
\* the keys with: ingredient_name in key or key in ingredient_name
PartialKeys(category_swaps, ingredient_name) ==
    {key \in Keys(category_swaps) :
        Contains(ingredient_name, key) \/ Contains(key, ingredient_name)}

\* SwapEngine.get_healthy_alternative_pool that tries the partial keys before
\* the exact key
GetHealthyAlternativePool_PartialFirst(ingredient_name, ingredient_category) ==
    LET category_swaps == HealthySwaps(ingredient_category)
        partial == ExtendAlts(category_swaps, PartialKeys(category_swaps, ingredient_name))
    IN IF category_swaps = <<>> THEN <<>>
       ELSE IF partial # <<>> THEN Unique(partial, {})
       ELSE Unique(ExtendAlts(category_swaps, Keys(category_swaps)), {})

\* SwapEngine.get_healthy_alternative_pool
GetHealthyAlternativePool(ingredient_name, ingredient_category) ==
    LET category_swaps == HealthySwaps(ingredient_category)
        partial == ExtendAlts(category_swaps, PartialKeys(category_swaps, ingredient_name))
    IN IF category_swaps = <<>> THEN <<>>
       ELSE IF ExactKey(category_swaps, ingredient_name)
       THEN category_swaps[CHOOSE k \in 1..Len(category_swaps) :
                               category_swaps[k].key = ingredient_name].alts
       ELSE IF partial # <<>> THEN Unique(partial, {})
       ELSE Unique(ExtendAlts(category_swaps, Keys(category_swaps)), {})

\* what get_flavor_pairings gives: it throws, or returns None, or a list
PairingResponses ==
    { [kind |-> "raises", names |-> <<>>],
      [kind |-> "none", names |-> <<>>],
      [kind |-> "list", names |-> <<>>],
      [kind |-> "list",
       names |-> << <<"honey">>, <<"Olive", "Oil">>, <<"Fresh", "Butter">>, <<"tofu">> >>],
      [kind |-> "list",
       names |-> << <<"quinoa">>, <<"stevia">>, <<"honey">>, <<"tofu">>,
                    <<"extra", "virgin", "olive", "oil">>, <<"applesauce">> >>] }

\* the try block of find_substitutes: the pairings not seen yet are appended;
\* a failing lookup leaves the candidates as they were
AugmentWithPairings(candidates, pairings, normalized) ==
    IF pairings.kind # "list" \/ pairings.names = <<>> THEN candidates
    ELSE candidates
         \o Unique(pairings.names,
                   {NormalizeIngredientName(candidates[i]) : i \in 1..Len(candidates)}
                   \cup {normalized})

\* the filter of find_substitutes that forgets the recipe
FilterCandidates_KeepRecipe(candidates, normalized, recipe_ingredients) ==
    SelectSeq(candidates, LAMBDA c : NormalizeIngredientName(c) # normalized)

\* the filter of find_substitutes: the risky ingredient itself and what the
\* recipe already holds are removed
FilterCandidates(candidates, normalized, recipe_ingredients) ==
    LET recipe_normalized ==
            {NormalizeIngredientName(recipe_ingredients[i]) :
                i \in 1..Len(recipe_ingredients)}
    IN SelectSeq(candidates,
                 LAMBDA c : /\ NormalizeIngredientName(c) # normalized
                            /\ NormalizeIngredientName(c) \notin recipe_normalized)

RiskyNames ==
    { <<"butter">>, <<"Fresh", "Butter">>, <<"peanut", "butter">>, <<"sugar">>,
      <<"sesame", "oil">>, <<"ground", "beef">>, <<"tofu">>, <<"kale">> }
\* recipe_ingredients; None and [] are both <<>>
RecipeLists ==
    { <<>>,
      << <<"butter">>, <<"2", "cups", "whole", "wheat", "flour">> >>,
      << <<"Fresh", "Butter">>, <<"extra", "virgin", "olive", "oil">>, <<"ghee">>,
         <<"ground", "turkey">> >> }
FindScores == {450}

\* SwapEngine.find_substitutes; the rank_substitutes call it makes is left in
\* ranking
FindSubstitutes(risky_ingredient, recipe_ingredients, current_health_score, pairings, table, backend) ==
    /\ engine.constructed
    /\ ~found.called
    /\ ~ranking.called
    /\ \E normalized \in {NormalizeIngredientName(risky_ingredient)} :
       \E pool \in {GetHealthyAlternativePool(normalized,
                                              CategorizeIngredient(normalized))} :
       \E augmented \in {AugmentWithPairings(pool, pairings, normalized)} :
       \E candidates \in {FilterCandidates(augmented, normalized, recipe_ingredients)} :
          /\ IF candidates = <<>>
             THEN ranking' = ranking
             ELSE Rank(candidates, risky_ingredient, current_health_score, table, backend)
          /\ found' = [called |-> TRUE,
                       raised |-> ranking'.raised,
                       risky_ingredient |-> risky_ingredient,
                       recipe_ingredients |-> recipe_ingredients,
                       pairings |-> pairings.kind,
                       pool |-> pool,
                       augmented |-> augmented,
                       candidates |-> candidates,
                       options |-> ranking'.options]
    /\ UNCHANGED <<engine, agentVars, healthVars, pureVars, coordVars, serviceVars>>

ConstructSome ==
    \E use_semantic_rerank \in BOOLEAN, semantic_weight \in SemanticWeights :
        Construct(use_semantic_rerank, semantic_weight)
RankSome ==
    /\ engine.constructed
    /\ ~ranking.called
    /\ ~found.called
    /\ \E candidates \in CandidateLists, original_name \in OriginalNames,
          current_health_score \in CurrentScores, table \in FlavorTables,
          backend \in SemanticBackends :
         RankSubstitutes(candidates, original_name, current_health_score, table, backend)

FindSome ==
    /\ engine.constructed
    /\ ~found.called
    /\ ~ranking.called
    /\ \E risky_ingredient \in RiskyNames, recipe_ingredients \in RecipeLists,
          current_health_score \in FindScores, pairings \in PairingResponses,
          table \in FlavorTables, backend \in SemanticBackends :
         FindSubstitutes(risky_ingredient, recipe_ingredients, current_health_score,
                         pairings, table, backend)

NextSwap == ConstructSome \/ RankSome \/ FindSome
SpecSwap == InitSwap /\ [][NextSwap]_vars

(***************************************************************************)
(* Functions called on their own: the call is drawn in the initial state   *)
(* and left in f_call, the value returned is left in f_ret                 *)
(***************************************************************************)
MaxWords == 3     \* words of an ingredient string given to normalize
MaxSwaps == 2     \* length of a list of swaps or substitutions

\* sequences over a set, up to a length
SeqsOver(set, n) == UNION { [1..k -> set] : k \in 0..n }

IngredientWords ==
    {"extra", "fresh", "virgin", "olive", "oil", "2", "cups", "fre5sh", "Butter"}
NormalizeCalls ==
    { [op |-> "normalize_ingredient_name", ingredient |-> x] :
        x \in SeqsOver(IngredientWords, MaxWords) }

\* normalize_ingredient_name, called on a string and then on what it returned
NormalizeCall ==
    /\ f_call.op = "normalize_ingredient_name"
    /\ IF f_ret = NoCall
       THEN f_ret' = [op |-> f_call.op, calls |-> 1, previous |-> f_call.ingredient,
                      value |-> NormalizeIngredientName(f_call.ingredient)]
       ELSE /\ f_ret.calls < 2
            /\ f_ret' = [op |-> f_call.op, calls |-> f_ret.calls + 1,
                         previous |-> f_ret.value,
                         value |-> NormalizeIngredientName(f_ret.value)]
    /\ UNCHANGED <<f_call, agentVars, healthVars, swapVars, coordVars, serviceVars>>

\* a swap dict: accepted is "true", "false" or "absent" (no such key);
\* original and the name of substitute are "" (<<>>) when empty or missing
ApplySwapRecords ==
    { [accepted |-> "true", original |-> <<"butter">>, substitute |-> <<"olive", "oil">>],
      [accepted |-> "true", original |-> <<"Fresh", "Butter">>, substitute |-> <<"ghee">>],
      [accepted |-> "true", original |-> <<"fresh">>, substitute |-> <<"olive", "oil">>],
      [accepted |-> "true", original |-> <<>>, substitute |-> <<"ghee">>],
      [accepted |-> "true", original |-> <<"butter">>, substitute |-> <<>>],
      [accepted |-> "false", original |-> <<"butter">>, substitute |-> <<"olive", "oil">>],
      [accepted |-> "false", original |-> <<>>, substitute |-> <<>>],
      [accepted |-> "absent", original |-> <<"Fresh", "Butter">>, substitute |-> <<"ghee">>] }
IngredientLists ==
    { <<>>,
      << <<"butter">>, <<"sugar">>, <<"2", "cups", "whole", "wheat", "flour">> >>,
      << <<"Fresh", "Butter">>, <<"fresh">>, <<>>, <<"olive", "oil">> >> }
ApplySwapsCalls ==
    { [op |-> "apply_swaps", original_ingredients |-> l, swaps |-> w] :
        l \in IngredientLists, w \in SeqsOver(ApplySwapRecords, MaxSwaps) }

\* swap.get("accepted", False)
Accepted(swap) == swap.accepted = "true"
\* a swap enters swap_map whatever its accepted flag
EntersSwapMap_Any(swap) == swap.original # <<>> /\ swap.substitute # <<>>
\* a swap enters swap_map: accepted, with an original and a substitute name
EntersSwapMap(swap) ==
    Accepted(swap) /\ swap.original # <<>> /\ swap.substitute # <<>>

\* swap_map of apply_swaps: normalized original -> substitute name, a later
\* swap replacing an earlier one of the same key
RECURSIVE SwapMap(_)
SwapMap(swaps) ==
    IF swaps = <<>> THEN [k \in {} |-> <<>>]
    ELSE LET swap == swaps[Len(swaps)]
             before == SwapMap(SubSeq(swaps, 1, Len(swaps) - 1))
         IN IF EntersSwapMap(swap)
            THEN (NormalizeIngredientName(swap.original) :> swap.substitute) @@ before
            ELSE before

\* SwapEngine.apply_swaps
ApplySwaps(original_ingredients, swaps) ==
    LET swap_map == SwapMap(swaps)
    IN AsList([i \in 1..Len(original_ingredients) |->
          LET normalized == NormalizeIngredientName(original_ingredients[i])
          IN IF normalized \in DOMAIN swap_map THEN swap_map[normalized]
             ELSE original_ingredients[i]])

ApplySwapsCall ==
    /\ f_call.op = "apply_swaps"
    /\ f_ret = NoCall
    /\ f_ret' = [op |-> f_call.op,
                 value |-> ApplySwaps(f_call.original_ingredients, f_call.swaps)]
    /\ UNCHANGED <<f_call, agentVars, healthVars, swapVars, coordVars, serviceVars>>

\* Exact amounts: a nutrient value is a fraction n/d in lowest terms, d > 0
RECURSIVE GCD(_, _)
GCD(a, b) == IF b = 0 THEN a ELSE GCD(b, a % b)
Abs(x) == IF x < 0 THEN 0 - x ELSE x
Reduce(n, d) ==
    LET g == GCD(Abs(n), d) IN [n |-> n \div g, d |-> d \div g]
Whole(x) == [n |-> x, d |-> 1]
RMul(a, n, d) == Reduce(a.n * n, a.d * d)
RAdd(a, b) ==
    LET g == GCD(a.d, b.d)
    IN Reduce(a.n * (b.d \div g) + b.n * (a.d \div g), (a.d \div g) * b.d)
RSub(a, b) == RAdd(a, [n |-> 0 - b.n, d |-> b.d])
RLess(a, b) == a.n * b.d < b.n * a.d

\* a dict as a function on its keys
HasKey(dict, key) == key \in DOMAIN dict
SetKey(dict, key, value) == (key :> value) @@ dict

\* adjustment_map of _get_nutrition_adjustments in dict order, the factors in
\* twentieths (0.55 is 11)
AdjustmentMap ==
    << [pattern |-> <<"olive", "oil">>,
        adjustments |-> [saturated_fat |-> 11, trans_fat |-> 0, cholesterol |-> 10]],
       [pattern |-> <<"avocado", "oil">>,
        adjustments |-> [saturated_fat |-> 10, trans_fat |-> 0, cholesterol |-> 8]],
       [pattern |-> <<"coconut", "oil">>,
        adjustments |-> [saturated_fat |-> 24, trans_fat |-> 0, cholesterol |-> 6]],
       [pattern |-> <<"ghee">>,
        adjustments |-> [saturated_fat |-> 18, trans_fat |-> 0]],
       [pattern |-> <<"applesauce">>,
        adjustments |-> [saturated_fat |-> 2, sugar |-> 26, calories |-> 10, fat |-> 2]],
       [pattern |-> <<"stevia">>,
        adjustments |-> [sugar |-> 1, calories |-> 1]],
       [pattern |-> <<"monk", "fruit">>,
        adjustments |-> [sugar |-> 1, calories |-> 1]],
       [pattern |-> <<"honey">>,
        adjustments |-> [sugar |-> 17, calories |-> 18]],
       [pattern |-> <<"maple", "syrup">>,
        adjustments |-> [sugar |-> 16, calories |-> 17]],
       [pattern |-> <<"coconut", "sugar">>,
        adjustments |-> [sugar |-> 15, calories |-> 18]],
       [pattern |-> <<"date", "sugar">>,
        adjustments |-> [sugar |-> 14, calories |-> 17, fiber |-> 30]],
       [pattern |-> <<"agave">>,
        adjustments |-> [sugar |-> 16, calories |-> 17]],
       [pattern |-> <<"almond", "milk">>,
        adjustments |-> [saturated_fat |-> 4, cholesterol |-> 0, calories |-> 8]],
       [pattern |-> <<"oat", "milk">>,
        adjustments |-> [saturated_fat |-> 4, cholesterol |-> 0, fiber |-> 30, calories |-> 12]],
       [pattern |-> <<"soy", "milk">>,
        adjustments |-> [saturated_fat |-> 5, cholesterol |-> 0, calories |-> 11]],
       [pattern |-> <<"coconut", "cream">>,
        adjustments |-> [saturated_fat |-> 22, cholesterol |-> 0]],
       [pattern |-> <<"cashew", "cream">>,
        adjustments |-> [saturated_fat |-> 8, cholesterol |-> 0]],
       [pattern |-> <<"greek", "yogurt">>,
        adjustments |-> [saturated_fat |-> 10, cholesterol |-> 12, sugar |-> 10]],
       [pattern |-> <<"nutritional", "yeast">>,
        adjustments |-> [saturated_fat |-> 2, cholesterol |-> 0, sodium |-> 6]],
       [pattern |-> <<"brown", "rice">>,
        adjustments |-> [fiber |-> 40]],
       [pattern |-> <<"quinoa">>,
        adjustments |-> [fiber |-> 40]],
       [pattern |-> <<"cauliflower", "rice">>,
        adjustments |-> [calories |-> 6, carbs |-> 4, fiber |-> 30]],
       [pattern |-> <<"whole", "wheat", "flour">>,
        adjustments |-> [fiber |-> 40]],
       [pattern |-> <<"almond", "flour">>,
        adjustments |-> [carbs |-> 8, fiber |-> 40, fat |-> 26]],
       [pattern |-> <<"oat", "flour">>,
        adjustments |-> [fiber |-> 40]],
       [pattern |-> <<"whole", "wheat", "pasta">>,
        adjustments |-> [fiber |-> 40]],
       [pattern |-> <<"zucchini", "noodles">>,
        adjustments |-> [calories |-> 4, carbs |-> 3, fiber |-> 30]],
       [pattern |-> <<"ground", "turkey">>,
        adjustments |-> [saturated_fat |-> 10, cholesterol |-> 14, calories |-> 15]],
       [pattern |-> <<"ground", "chicken">>,
        adjustments |-> [saturated_fat |-> 8, cholesterol |-> 12, calories |-> 14]],
       [pattern |-> <<"lentils">>,
        adjustments |-> [saturated_fat |-> 2, cholesterol |-> 0, fiber |-> 60, calories |-> 12]],
       [pattern |-> <<"turkey", "bacon">>,
        adjustments |-> [saturated_fat |-> 8, sodium |-> 16, calories |-> 12]],
       [pattern |-> <<"tempeh">>,
        adjustments |-> [saturated_fat |-> 4, cholesterol |-> 0, fiber |-> 50]],
       [pattern |-> <<"chicken", "sausage">>,
        adjustments |-> [saturated_fat |-> 10, calories |-> 14]],
       [pattern |-> <<"turkey", "sausage">>,
        adjustments |-> [saturated_fat |-> 9, calories |-> 14]],
       [pattern |-> <<"hummus">>,
        adjustments |-> [saturated_fat |-> 6, fiber |-> 40, cholesterol |-> 0]],
       [pattern |-> <<"avocado">>,
        adjustments |-> [saturated_fat |-> 6, fiber |-> 50, cholesterol |-> 0]],
       [pattern |-> <<"coconut", "aminos">>,
        adjustments |-> [sodium |-> 8]],
       [pattern |-> <<"tamari">>,
        adjustments |-> [sodium |-> 14]],
       [pattern |-> <<"salsa">>,
        adjustments |-> [sugar |-> 6, sodium |-> 12, calories |-> 6]],
       [pattern |-> <<"herbs">>,
        adjustments |-> [sodium |-> 0]],
       [pattern |-> <<"lemon", "juice">>,
        adjustments |-> [sodium |-> 0]],
       [pattern |-> <<"garlic", "powder">>,
        adjustments |-> [sodium |-> 1]],
       [pattern |-> <<"herb", "blend">>,
        adjustments |-> [sodium |-> 1]] >>
\* the default of _get_nutrition_adjustments
DefaultAdjustments ==
    [saturated_fat |-> 17, sodium |-> 17, sugar |-> 17, cholesterol |-> 17]

\* SwapEngine._get_nutrition_adjustments: the first pattern that is in the
\* normalized name, for names whose words hold no pattern as a proper part
GetNutritionAdjustments(substitute_name) ==
    LET normalized == NormalizeIngredientName(substitute_name)
        Hit(k) == Contains(AdjustmentMap[k].pattern, normalized)
    IN IF \E k \in 1..Len(AdjustmentMap) : Hit(k)
       THEN AdjustmentMap[CHOOSE k \in 1..Len(AdjustmentMap) :
                              Hit(k) /\ \A j \in 1..(k - 1) : ~Hit(j)].adjustments
       ELSE DefaultAdjustments

\* every key of a nutrition dict taken as adjustable
AdjustableNutrients_All ==
    {"calories", "protein", "carbs", "fat", "sugar", "sodium", "saturated_fat",
     "trans_fat", "cholesterol", "fiber"}
\* ADJUSTABLE_NUTRIENTS
AdjustableNutrients ==
    {"sugar", "sodium", "saturated_fat", "trans_fat", "cholesterol", "fiber"}
\* BASELINE
Baseline ==
    [sugar |-> 5, sodium |-> 50, saturated_fat |-> 2, trans_fat |-> 0,
     cholesterol |-> 20, fiber |-> 2]

\* num_ingredients without the floor of 3 and of the swaps
NumIngredients_NoFloor(total_ingredients, accepted_swaps) ==
    Max(total_ingredients, 1)
\* num_ingredients = max(total_ingredients, len(accepted_swaps) + 2, 3)
NumIngredients(total_ingredients, accepted_swaps) ==
    Max(Max(total_ingredients, Len(accepted_swaps) + 2), 3)

\* the adjustment that takes the whole amount times the factor away
Adjust_WholeAmount(original_value, num_ingredients, factor) ==
    RSub(original_value, RMul(original_value, factor, 20))
\* portion = original_value * ingredient_share; adjusted = portion * factor;
\* original_value - portion + adjusted
Adjust(original_value, num_ingredients, factor) ==
    LET portion == RMul(original_value, 1, num_ingredients)
        adjusted == RMul(portion, factor, 20)
    IN RAdd(RSub(original_value, portion), adjusted)

\* mutant: a zero value is adjusted like any other, and stays zero
AdjustFor_MultiplyZero(new_nutrition, adjustments, num_ingredients) ==
    [nutrient \in DOMAIN new_nutrition |->
        IF nutrient \notin DOMAIN adjustments \/ nutrient \notin AdjustableNutrients
        THEN new_nutrition[nutrient]
        ELSE Adjust(new_nutrition[nutrient], num_ingredients, adjustments[nutrient])]

\* the loop over adjustments.items() for one swap: the nutrients are distinct,
\* so every one is adjusted from the value it had before the swap
AdjustFor(new_nutrition, adjustments, num_ingredients) ==
    [nutrient \in DOMAIN new_nutrition |->
        IF nutrient \notin DOMAIN adjustments \/ nutrient \notin AdjustableNutrients
        THEN new_nutrition[nutrient]
        ELSE IF new_nutrition[nutrient].n = 0
        THEN IF adjustments[nutrient] > 20
             THEN RMul(Whole(Baseline[nutrient]), adjustments[nutrient],
                       20 * num_ingredients)
             ELSE new_nutrition[nutrient]
        ELSE Adjust(new_nutrition[nutrient], num_ingredients, adjustments[nutrient])]

\* the loop over accepted_swaps
RECURSIVE AdjustAll(_, _, _)
AdjustAll(new_nutrition, accepted_swaps, num_ingredients) ==
    IF accepted_swaps = <<>> THEN new_nutrition
    ELSE AdjustAll(AdjustFor(new_nutrition,
                             GetNutritionAdjustments(Head(accepted_swaps).substitute),
                             num_ingredients),
                   Tail(accepted_swaps), num_ingredients)

\* SwapEngine.estimate_nutrition_with_swaps
EstimateNutritionWithSwaps(original_nutrition, swaps, total_ingredients) ==
    LET accepted_swaps == SelectSeq(swaps, Accepted)
    IN IF accepted_swaps = <<>> THEN original_nutrition
       ELSE AdjustAll(original_nutrition, accepted_swaps,
                      NumIngredients(total_ingredients, accepted_swaps))

\* nutrition dicts: every key, the adjustable ones at zero, a few keys, none
NutritionDicts ==
    { [calories |-> Whole(300), protein |-> Whole(10), carbs |-> Whole(40),
       fat |-> Whole(12), saturated_fat |-> Whole(9), trans_fat |-> Whole(1),
       sodium |-> Whole(40), sugar |-> Whole(20), cholesterol |-> Whole(30),
       fiber |-> Whole(4)],
      [calories |-> Whole(300), protein |-> Whole(10), carbs |-> Whole(40),
       fat |-> Whole(12), saturated_fat |-> Whole(0), trans_fat |-> Whole(0),
       sodium |-> Whole(0), sugar |-> Whole(0), cholesterol |-> Whole(0),
       fiber |-> Whole(0)],
      [calories |-> Whole(120), sugar |-> Whole(7), fiber |-> Whole(0)],
      [cholesterol |-> Whole(10), fiber |-> Whole(3)],
      <<>> }
EstimateSwapRecords ==
    [accepted : {"true"},
     original : {<<"butter">>},
     substitute : {<<"olive", "oil">>, <<"applesauce">>, <<"lentils">>,
                   <<"almond", "flour">>, <<"coconut", "oil">>, <<"tofu">>, <<>>}]
    \cup { [accepted |-> "false", original |-> <<"butter">>,
            substitute |-> <<"olive", "oil">>],
           [accepted |-> "absent", original |-> <<"butter">>,
            substitute |-> <<"lentils">>] }
TotalIngredients == {0, 3, 5}
EstimateWithSwapsCalls ==
    { [op |-> "estimate_nutrition_with_swaps", original_nutrition |-> d,
       swaps |-> w, total_ingredients |-> t] :
        d \in NutritionDicts, w \in SeqsOver(EstimateSwapRecords, MaxSwaps),
        t \in TotalIngredients }

EstimateWithSwapsCall ==
    /\ f_call.op = "estimate_nutrition_with_swaps"
    /\ f_ret = NoCall
    /\ f_ret' = [op |-> f_call.op,
                 value |-> EstimateNutritionWithSwaps(f_call.original_nutrition,
                                                      f_call.swaps,
                                                      f_call.total_ingredients)]
    /\ UNCHANGED <<f_call, agentVars, healthVars, swapVars, coordVars, serviceVars>>

\* the nutrients that estimate_nutrition_changes reduces, in the order of
\* its list
ReducedKeys ==
    <<"calories", "saturated_fat", "trans_fat", "sodium", "sugar", "cholesterol">>

\* the inner loop of estimate_nutrition_changes; factor is in two-hundredths
RECURSIVE ReduceKeys(_, _, _, _)
ReduceKeys(estimate, keys, n_ingredients, factor) ==
    IF keys = <<>> THEN estimate
    ELSE LET key == Head(keys)
         IN ReduceKeys(
              IF HasKey(estimate, key)
              THEN SetKey(estimate, key,
                     RSub(estimate[key],
                          RMul(estimate[key], 200 - factor, 200 * n_ingredients)))
              ELSE estimate,
              Tail(keys), n_ingredients, factor)

\* the body of the loop over self.substitutions: after the inner loop, key is
\* still its last value, "cholesterol", and that is where the fiber line writes
ChangeFor(estimate, confidence, n_ingredients) ==
    LET factor == Max(60, 200 - confidence)
        reduced == ReduceKeys(estimate, ReducedKeys, n_ingredients, factor)
        key == ReducedKeys[Len(ReducedKeys)]
    IN IF HasKey(reduced, "fiber")
       THEN SetKey(reduced, key,
                   RAdd(reduced["fiber"], RMul(reduced["fiber"], 1, 5 * n_ingredients)))
       ELSE reduced

RECURSIVE ChangeAll(_, _, _)
ChangeAll(estimate, substitutions, n_ingredients) ==
    IF substitutions = <<>> THEN estimate
    ELSE ChangeAll(ChangeFor(estimate, Head(substitutions), n_ingredients),
                   Tail(substitutions), n_ingredients)

\* AgentSwapResult.estimate_nutrition_changes; a substitution is given by its
\* confidence, in hundredths
EstimateNutritionChanges(substitutions, nutrition, n_ingredients) ==
    IF n_ingredients = 0 THEN nutrition
    ELSE ChangeAll(nutrition, substitutions, n_ingredients)

Confidences == {0, 50, 85, 100}
IngredientCounts == {0, 1, 3}
EstimateChangesCalls ==
    { [op |-> "estimate_nutrition_changes", substitutions |-> c,
       nutrition_data |-> d, n_ingredients |-> n] :
        c \in SeqsOver(Confidences, MaxSwaps), d \in NutritionDicts,
        n \in IngredientCounts }

EstimateChangesCall ==
    /\ f_call.op = "estimate_nutrition_changes"
    /\ f_ret = NoCall
    /\ f_ret' = [op |-> f_call.op,
                 value |-> EstimateNutritionChanges(f_call.substitutions,
                                                    f_call.nutrition_data,
                                                    f_call.n_ingredients)]
    /\ UNCHANGED <<f_call, agentVars, healthVars, swapVars, coordVars, serviceVars>>

MaxImprovementSteps == 40   \* current scores 0, 2.5, ... up to 100
ImprovementScores ==
    {Min(25 * k, 1000) : k \in 0..MaxImprovementSteps}
    \cup {299, 300, 301, 499, 500, 501, 699, 700, 701, 999}
ImprovementSubstitutes ==
    {ImprovementEstimates[i].key : i \in 1..Len(ImprovementEstimates)}
    \cup {<<"tofu">>, <<"extra", "virgin", "olive", "oil">>}
EstimateImprovementCalls ==
    { [op |-> "estimate_health_improvement", substitute_ingredient |-> x,
       current_score |-> c] :
        x \in ImprovementSubstitutes, c \in ImprovementScores }

EstimateImprovementCall ==
    /\ f_call.op = "estimate_health_improvement"
    /\ f_ret = NoCall
    /\ f_ret' = [op |-> f_call.op,
                 value |-> EstimateHealthImprovement(f_call.substitute_ingredient,
                                                     f_call.current_score)]
    /\ UNCHANGED <<f_call, agentVars, healthVars, swapVars, coordVars, serviceVars>>

\* the keys of adjustment_map, and names the table does not hold
AdjustmentKeys == {AdjustmentMap[k].pattern : k \in 1..Len(AdjustmentMap)}
AdjustmentsCalls ==
    { [op |-> "get_nutrition_adjustments", substitute_name |-> x] :
        x \in AdjustmentKeys \cup {<<"ghee">>, <<"extra", "virgin", "olive", "oil">>, <<>>} }

AdjustmentsCall ==
    /\ f_call.op = "get_nutrition_adjustments"
    /\ f_ret = NoCall
    /\ f_ret' = [op |-> f_call.op,
                 value |-> GetNutritionAdjustments(f_call.substitute_name)]
    /\ UNCHANGED <<f_call, agentVars, healthVars, swapVars, coordVars, serviceVars>>

PureCalls ==
    NormalizeCalls \cup ApplySwapsCalls \cup EstimateWithSwapsCalls
    \cup EstimateChangesCalls \cup EstimateImprovementCalls \cup AdjustmentsCalls

InitPure ==
    /\ AgentOff
    /\ HealthIdle
    /\ SwapIdle
    /\ CoordIdle
    /\ ServiceIdle
    /\ f_call \in PureCalls
    /\ f_ret = NoCall

NextPure ==
    \/ NormalizeCall \/ ApplySwapsCall \/ EstimateWithSwapsCall \/ EstimateChangesCall
    \/ EstimateImprovementCall
    \/ AdjustmentsCall
SpecPure == InitPure /\ [][NextPure]_vars

(***************************************************************************)
(* analyze_full, steps 6 to 9: swap discovery by the agent or by the rules. *)
(* a_in is what the request meets (whether the agent is configured, what   *)
(* its run gives, what the risk analysis and find_substitutes give), a_loc *)
(* the locals of the handler, a_pc its position.                           *)
(***************************************************************************)
MaxRisky == 2     \* ingredients that the risk analysis flags

AnalyzedIngredients == << <<"butter">>, <<"sugar">>, <<"white", "flour">>, <<"salt">> >>

\* what llm_swap_agent.run gives: an exception, or a result with its
\* substitutions (by original ingredient) and its data_completeness
AgentOutcomes ==
    { [raises |-> TRUE, substitutions |-> <<>>, data_completeness |-> ""] }
    \cup { [raises |-> FALSE, substitutions |-> <<>>, data_completeness |-> c] :
             c \in {"parse_error", "partial", "full"} }
    \cup { [raises |-> FALSE, substitutions |-> SubSeq(AnalyzedIngredients, 1, k),
            data_completeness |-> "full"] : k \in 1..MaxSubs }
\* the names that identify_risky_ingredients flags
RiskyLists == { SubSeq(AnalyzedIngredients, 1, k) : k \in 0..MaxRisky }
\* what find_substitutes does for the k-th risky ingredient
FindOutcomes == [1..MaxRisky -> {"raises", "empty", "options"}]
AnalyzeInputs ==
    [configured : BOOLEAN, agent : AgentOutcomes, risky_objs : RiskyLists,
     find : FindOutcomes]

\* the locals as set before the agent path, and as reset by its handler
NoSwapDiscovery ==
    [risky_ingredients |-> <<>>, swap_suggestions |-> <<>>, improved_score |-> "None",
     improved_ingredients |-> "None", score_improvement |-> "None",
     agent_metadata |-> "None", agent_ran |-> FALSE, rules_ran |-> FALSE]

\* to_swap_suggestions_dicts: one suggestion per substitution, not accepted
AgentSuggestions(substitutions) ==
    AsList([i \in 1..Len(substitutions) |->
        [original |-> substitutions[i], by |-> "agent", accepted |-> FALSE]])

\* the loop of step 7: a suggestion for every risky ingredient for which
\* find_substitutes returns options; an exception skips the ingredient
RECURSIVE RuleSuggestions(_, _, _)
RuleSuggestions(risky_objs, find, k) ==
    IF k > Len(risky_objs) THEN <<>>
    ELSE (IF find[k] = "options"
          THEN <<[original |-> risky_objs[k], by |-> "rules", accepted |-> TRUE]>>
          ELSE <<>>)
         \o RuleSuggestions(risky_objs, find, k + 1)

\* the locals after the agent path: untouched when no agent is configured,
\* reset by the exception handler when run raises, else set from the result
AfterAgentPath ==
    IF ~a_in.configured THEN a_loc
    ELSE IF a_in.agent.raises THEN [NoSwapDiscovery EXCEPT !.agent_ran = TRUE]
    ELSE [NoSwapDiscovery EXCEPT
            !.agent_ran = TRUE,
            !.risky_ingredients = a_in.agent.substitutions,
            !.swap_suggestions = AgentSuggestions(a_in.agent.substitutions),
            !.improved_score =
                IF a_in.agent.substitutions # <<>> THEN "projected by agent"
                ELSE "original_score",
            !.improved_ingredients =
                IF a_in.agent.substitutions # <<>> THEN "swapped by agent"
                ELSE "ingredients",
            !.score_improvement =
                IF a_in.agent.substitutions # <<>> THEN "difference" ELSE "0.0",
            !.agent_metadata = a_in.agent.data_completeness]

\* the agent path of a handler that answers with what the agent left
AgentPath_NoFallback ==
    /\ a_pc = "agent_path"
    /\ a_loc' = AfterAgentPath
    /\ a_pc' = "respond"
    /\ UNCHANGED <<a_in, agentVars, healthVars, swapVars, pureVars, serviceVars>>

\* if llm_swap_agent: try ... except Exception: reset
AgentPath ==
    /\ a_pc = "agent_path"
    /\ a_loc' = AfterAgentPath
    /\ a_pc' = "rule_based"
    /\ UNCHANGED <<a_in, agentVars, healthVars, swapVars, pureVars, serviceVars>>

\* if not swap_suggestions: steps 6 to 9 by the rules
RuleBasedPath ==
    /\ a_pc = "rule_based"
    /\ a_loc.swap_suggestions = <<>>
    /\ \E swap_objects_for_projection \in {RuleSuggestions(a_in.risky_objs, a_in.find, 1)} :
         a_loc' = [a_loc EXCEPT
                     !.rules_ran = TRUE,
                     !.risky_ingredients = a_in.risky_objs,
                     !.swap_suggestions = swap_objects_for_projection,
                     !.improved_score =
                         IF swap_objects_for_projection # <<>> THEN "projected by rules"
                         ELSE "original_score",
                     !.improved_ingredients =
                         IF swap_objects_for_projection # <<>> THEN "swapped by rules"
                         ELSE "ingredients",
                     !.score_improvement =
                         IF swap_objects_for_projection # <<>> THEN "difference"
                         ELSE "0.0"]
    /\ a_pc' = "respond"
    /\ UNCHANGED <<a_in, agentVars, healthVars, swapVars, pureVars, serviceVars>>

\* the agent's suggestions stand: the rule-based block is skipped
SkipRuleBasedPath ==
    /\ a_pc = "rule_based"
    /\ a_loc.swap_suggestions # <<>>
    /\ a_pc' = "respond"
    /\ UNCHANGED <<a_in, a_loc, agentVars, healthVars, swapVars, pureVars, serviceVars>>

\* return FullAnalysisResponse(...)
BuildResponse ==
    /\ a_pc = "respond"
    /\ a_pc' = "responded"
    /\ UNCHANGED <<a_in, a_loc, agentVars, healthVars, swapVars, pureVars, serviceVars>>

InitAnalyze ==
    /\ AgentOff
    /\ HealthIdle
    /\ SwapIdle
    /\ PureIdle
    /\ ServiceIdle
    /\ a_pc = "agent_path"
    /\ a_in \in AnalyzeInputs
    /\ a_loc = NoSwapDiscovery

NextAnalyze == AgentPath \/ RuleBasedPath \/ SkipRuleBasedPath \/ BuildResponse
SpecAnalyze == InitAnalyze /\ [][NextAnalyze]_vars

(***************************************************************************)
(* Properties of the agent loop and of the parsing of its answer           *)
(***************************************************************************)
Ended == pc \in {"done", "raised"}

\* the text is not JSON for the parser: nothing is extracted, or what is
\* extracted does not decode
NotJson(text) == ExtractJson(text) = NoJson \/ ~JsonLoads(ExtractJson(text))
\* no slice of the text decodes as a JSON object
NoObjectInside(text) ==
    \A i \in 1..Len(text) : \A j \in i..Len(text) : ~JsonLoads(SubSeq(text, i, j))

\* the names requested by the model so far, read off the conversation
RECURSIVE RequestedNames(_)
RequestedNames(c) ==
    IF c = <<>> THEN <<>>
    ELSE (IF Head(c).kind = "calls" THEN Head(c).calls ELSE <<>>) \o RequestedNames(Tail(c))
\* the number of tool-calling turns so far
ToolTurns == Cardinality({i \in 1..Len(contents) : contents[i].kind = "calls"})
\* a provider call raised in the turn being executed, or in an earlier one
ProviderRaisedInTurn == \E i \in 1..Len(response_parts) : response_parts[i].response = "error_note"
ProviderRaisedBefore ==
    \E i \in 1..Len(contents) : \E j \in 1..Len(contents[i].parts) :
        contents[i].parts[j].response = "error_note"

\* C1: a response without tool calls whose text is not JSON ends the run on
\* that turn, without raising, with data_completeness "parse_error" and the
\* raw text in raw_reasoning.
C1_NonJsonFinalIsParseError ==
    (response = "text" /\ (NotJson(final.text) \/ NoObjectInside(final.text))) =>
        /\ pc = "done"
        /\ result.returned
        /\ result.data_completeness = "parse_error"
        /\ result.raw_reasoning = RawText(final.text)
        /\ result.substitutions = <<>>
        /\ result.iterations = model_calls
C1_Witness ==
    /\ pc = "done"
    /\ response = "text"
    /\ tools_called # <<>>
    /\ ExtractJson(final.text) # NoJson
    /\ ~JsonLoads(ExtractJson(final.text))
    /\ result.data_completeness = "parse_error"

\* C2: when every one of max_iterations turns requested a tool call, run
\* returns a result with data_completeness "partial", no substitutions, the
\* note that the iteration limit was reached and iterations = max_iterations.
C2_AllToolTurnsGivePartial ==
    (pc = "loop" /\ ToolTurns = MaxIterations => ENABLED HitMaxIterations)
    /\ (Ended /\ ToolTurns = MaxIterations =>
            /\ pc = "done"
            /\ result.returned
            /\ result.data_completeness = "partial"
            /\ result.substitutions = <<>>
            /\ result.raw_reasoning = LimitNote
            /\ result.iterations = MaxIterations)
C2_Witness ==
    /\ pc = "done"
    /\ ToolTurns = MaxIterations
    /\ Len(tools_called) > MaxIterations
    /\ result.data_completeness = "partial"

C4_ApisAndIterationsRecorded ==
    result.returned =>
        /\ result.apis_called = RequestedNames(contents)
        /\ result.iterations = model_calls
C4_Witness ==
    /\ result.returned
    /\ response = "empty"
    /\ "unknown_tool" \in Range(result.apis_called)
    /\ ProviderRaisedBefore
    /\ result.iterations = 2

\* a JSON value that float() and the bounds [lo, hi] of the field accept
NumberIn(v, lo, hi) ==
    \/ v.t = "num" /\ lo <= v.n /\ v.n <= hi
    \/ v.t = "str" /\ v.s = "0.8" /\ lo <= 80 /\ 80 <= hi
\* an entry of "substitutions" in the sense of the claim: an object whose
\* names are not null and whose numbers, when given, are numeric and in range
WellFormedEntry(e) ==
    /\ e.obj
    /\ e.original_ingredient.t # "null"
    /\ e.substitute_ingredient.t # "null"
    /\ e.confidence.t = "absent" \/ NumberIn(e.confidence, 0, 100)
    /\ e.flavor_similarity_score.t = "absent" \/ NumberIn(e.flavor_similarity_score, 0, 10000)
NumberOr(v, default) ==
    IF v.t = "absent" THEN default ELSE IF v.t = "num" THEN v.n ELSE 80
TextOr(v, default) == IF v.t = "absent" THEN default ELSE v.s
\* the top-level members of the object are acceptable
TopLevelWellFormed(data) ==
    /\ data.substitutions.t # "null"
    /\ data.overall_confidence.t = "absent" \/ NumberIn(data.overall_confidence, 0, 100)
    /\ data.data_completeness.t \in {"absent", "str"}
    /\ data.no_substitute_ingredients.t # "null"
Decoded == final.given /\ ~NotJson(final.text)

\* C5 as stated: a final text that is a JSON object without a
\* "substitutions" key gives, without raising, a result with no
\* substitutions and the declared data_completeness, whatever the other
\* top-level members hold.
C5_NoSubstitutionsKeyParses ==
    (Decoded /\ final.data.substitutions.t = "absent"
             /\ final.data.data_completeness.t = "str") =>
        /\ pc = "done"
        /\ result.returned
        /\ result.substitutions = <<>>
        /\ result.data_completeness = final.data.data_completeness.s

\* C6: of a "substitutions" list the result holds exactly the well-formed
\* entries, in their order; a malformed entry is skipped on its own and is
\* never the reason the parse raises.
C6_MalformedEntriesSkipped ==
    (Decoded /\ final.data.substitutions.t = "list") =>
        LET good == SelectSeq(final.data.substitutions.items, WellFormedEntry) IN
        /\ pc = "raised" <=> ~TopLevelWellFormed(final.data)
        /\ pc = "done" =>
            /\ Len(result.substitutions) = Len(good)
            /\ \A i \in 1..Len(good) :
                /\ result.substitutions[i].original_ingredient =
                       TextOr(good[i].original_ingredient, "")
                /\ result.substitutions[i].substitute_ingredient =
                       TextOr(good[i].substitute_ingredient, "")
                /\ result.substitutions[i].confidence = NumberOr(good[i].confidence, 50)
                /\ result.substitutions[i].flavor_similarity_score =
                       NumberOr(good[i].flavor_similarity_score, 5000)
C6_Witness ==
    /\ pc = "done"
    /\ Decoded
    /\ Len(final.data.substitutions.items) = 2
    /\ ~WellFormedEntry(final.data.substitutions.items[1])
    /\ WellFormedEntry(final.data.substitutions.items[2])
    /\ Len(result.substitutions) = 1

\* C7 as stated: the data_completeness of every result of run is one of
\* full, partial, minimal, parse_error.
Completeness == {"full", "partial", "minimal", "parse_error"}
C7_CompletenessIsEnum ==
    result.returned => result.data_completeness \in Completeness

(***************************************************************************)
(* Properties of the health scorer                                         *)
(***************************************************************************)
\* the bucket of a score, by its interval
RatingFloor(r) ==
    CASE r = "Excellent" -> 80000 [] r = "Good" -> 60000 [] r = "Decent" -> 40000
      [] r = "Bad" -> 20000 [] OTHER -> 0
RatingCeiling(r) ==
    CASE r = "Excellent" -> 100001 [] r = "Good" -> 80000 [] r = "Decent" -> 60000
      [] r = "Bad" -> 40000 [] OTHER -> 20000
Bucket(score) ==
    CHOOSE r \in Ratings : RatingFloor(r) <= score /\ score < RatingCeiling(r)
ValidScore(score) == 0 <= score /\ score <= 100000

\* C8: for every score in [0,100] assign_rating gives the threshold bucket of
\* the score; the HealthScore constructor accepts a (score, rating) pair
\* exactly when the rating is that bucket; and a HealthScore produced by
\* calculate_health_score carries the bucket of its reported, rounded score.
C8_RatingIsBucket ==
    /\ h_op = "assign" /\ ValidScore(h_args.score)
         => health_score.rating = Bucket(h_args.score)
    /\ h_op = "construct" /\ ValidScore(h_args.score)
         => (~health_score.raised <=> h_args.rating = Bucket(h_args.score))
    /\ h_op = "calculate" /\ ~health_score.raised
         => /\ ValidScore(health_score.score)
            /\ health_score.rating = Bucket(health_score.score)
\* assign_rating was applied at a threshold, or a bucket's pair was accepted
\* at a threshold, or a calculated score sits exactly on a threshold
C8_Witness ==
    \/ h_op = "assign" /\ h_args.score = ThresholdGood /\ health_score.rating = "Good"
    \/ h_op = "construct" /\ h_args.score = ThresholdDecent - 10
          /\ h_args.rating = "Decent" /\ health_score.raised
    \/ h_op = "calculate" /\ ~health_score.raised
          /\ health_score.score = ThresholdExcellent
          /\ health_score.rating = "Excellent"

\* the record with 0 written for every missing field
ZeroFilled(n) ==
    Nutrition(GetOr0(n.calories), GetOr0(n.protein), GetOr0(n.carbs), GetOr0(n.fat),
              GetOr0(n.saturated_fat), GetOr0(n.trans_fat), GetOr0(n.sodium),
              GetOr0(n.sugar), GetOr0(n.cholesterol), GetOr0(n.fiber))

\* C9: on a record of non-negative numbers with any fields missing,
\* calculate_health_score does not raise, gives what it gives on the record
\* with 0 for the missing fields, gives a macronutrient score of 0 when
\* calories is missing or not positive, and gives a score in [0,100].
C9_CalculateIsTotal ==
    h_op = "calculate" =>
        /\ ~health_score.raised
        /\ health_score = CalculateHealthScore(ZeroFilled(nutrition_data), micro_nutrition)
        /\ GetOr0(nutrition_data.calories) <= 0
             => health_score.breakdown.macronutrient_score = 0
        /\ 0 <= health_score.score /\ health_score.score <= 100000
\* a record without calories but with protein, carbs and fat was scored
C9_Witness ==
    /\ h_op = "calculate"
    /\ nutrition_data.calories \in {NoValue, 0}
    /\ nutrition_data.protein > 0 /\ nutrition_data.carbs > 0 /\ nutrition_data.fat > 0
    /\ nutrition_data.sodium = NoValue
    /\ ~health_score.raised

(***************************************************************************)
(* Properties of the swap engine                                           *)
(***************************************************************************)
\* the weights that the rank_score of a returned option was computed with
AppliedWeights ==
    engine.flavor_weight + engine.health_weight
    + (IF ranking.semantic_applied THEN engine.semantic_weight ELSE 0)

\* C10 as stated: whatever the configuration and the ranking run, the
\* weights applied to flavor_match, health_improvement and, when it is used,
\* the semantic score in the rank_score of a returned option sum to 1.0.
C10_AppliedWeightsSumToOne ==
    (ranking.called /\ ranking.options # <<>>) => AppliedWeights = 1000

(***************************************************************************)
(* Properties of SwapEngine.find_substitutes                               *)
(***************************************************************************)
\* C11: when semantic re-ranking is enabled and compute_similarity_scores
\* yields no scores, find_substitutes returns without raising and every
\* rank_score is flavor_match x 0.6 + health_improvement x 0.4
C11_UnavailableBackendUsesNoSemanticSplit ==
    (/\ found.called
     /\ ranking.called
     /\ engine.use_semantic_rerank
     /\ ranking.semantic = "unavailable")
    => /\ ~found.raised
       /\ \A i \in 1..Len(found.options) :
            found.options[i].rank_score =
                found.options[i].flavor_match * 600
                + found.options[i].health_improvement * 400

\* C12: find_substitutes returns at most 5 options, none of them the risky
\* ingredient and none an ingredient of the recipe, by normalized name
C12_AtMostFiveNoneOriginalNoneInRecipe ==
    found.called =>
        /\ Len(found.options) <= 5
        /\ \A i \in 1..Len(found.options) :
             /\ NormalizeIngredientName(found.options[i].name)
                  # NormalizeIngredientName(found.risky_ingredient)
             /\ \A j \in 1..Len(found.recipe_ingredients) :
                  NormalizeIngredientName(found.options[i].name)
                    # NormalizeIngredientName(found.recipe_ingredients[j])
\* five options returned out of more candidates, one candidate having been
\* dropped because the recipe holds it
C12_Witness ==
    /\ found.called
    /\ Len(found.options) = 5
    /\ Len(found.candidates) > 5
    /\ \E i \in 1..Len(found.augmented) : \E j \in 1..Len(found.recipe_ingredients) :
         /\ NormalizeIngredientName(found.augmented[i])
              = NormalizeIngredientName(found.recipe_ingredients[j])
         /\ NormalizeIngredientName(found.augmented[i])
              # NormalizeIngredientName(found.risky_ingredient)

AltsOf(category_swaps, keys) ==
    UNION { Range(category_swaps[k].alts) :
              k \in {k \in 1..Len(category_swaps) : category_swaps[k].key \in keys} }
\* C20: the static pool is the exact key's alternatives when there is an exact
\* key, else the union over the partially matching keys when there is one,
\* else the whole category; the pairing lookup, whatever it gives, removes no
\* static candidate, so the pool for butter holds olive oil
C20_SourcePriority ==
    found.called =>
        LET normalized == NormalizeIngredientName(found.risky_ingredient)
            category_swaps == HealthySwaps(CategorizeIngredient(normalized))
            partial == {key \in Keys(category_swaps) :
                          Contains(normalized, key) \/ Contains(key, normalized)}
        IN /\ normalized \in Keys(category_swaps)
                => \E k \in 1..Len(category_swaps) :
                      /\ category_swaps[k].key = normalized
                      /\ found.pool = category_swaps[k].alts
           /\ (normalized \notin Keys(category_swaps) /\ partial # {})
                => Range(found.pool) = AltsOf(category_swaps, partial)
           /\ (normalized \notin Keys(category_swaps) /\ partial = {})
                => Range(found.pool) = AltsOf(category_swaps, Keys(category_swaps))
           /\ Len(found.pool) <= Len(found.augmented)
           /\ SubSeq(found.augmented, 1, Len(found.pool)) = found.pool
           /\ normalized = <<"butter">> => <<"olive", "oil">> \in Range(found.augmented)
\* butter looked up while the pairing lookup fails
C20_Witness ==
    /\ found.called
    /\ NormalizeIngredientName(found.risky_ingredient) = <<"butter">>
    /\ found.pairings = "raises"
    /\ <<"olive", "oil">> \in Range(found.augmented)

(***************************************************************************)
(* Properties of the functions called on their own                         *)
(***************************************************************************)
\* C14: normalize_ingredient_name is idempotent: called on what it returned,
\* it returns the same string
C14_NormalizeIsIdempotent ==
    (f_ret.op = "normalize_ingredient_name" /\ f_ret.calls = 2)
    => f_ret.value = f_ret.previous

\* the swaps that the statement of the claim lets act on ingredient i
MatchingSwaps(i, needs_original) ==
    {k \in 1..Len(f_call.swaps) :
        /\ Accepted(f_call.swaps[k])
        /\ f_call.swaps[k].substitute # <<>>
        /\ needs_original => f_call.swaps[k].original # <<>>
        /\ NormalizeIngredientName(f_call.swaps[k].original)
             = NormalizeIngredientName(f_call.original_ingredients[i])}
SubstitutedWhereMatched(needs_original) ==
    /\ Len(f_ret.value) = Len(f_call.original_ingredients)
    /\ \A i \in 1..Len(f_call.original_ingredients) :
         IF MatchingSwaps(i, needs_original) # {}
         THEN \E k \in MatchingSwaps(i, needs_original) :
                 f_ret.value[i] = f_call.swaps[k].substitute
         ELSE f_ret.value[i] = f_call.original_ingredients[i]
AcceptedSwaps == SelectSeq(f_call.swaps, Accepted)
\* C13: with every input value >= 0, every value that
\* estimate_nutrition_with_swaps returns is >= 0, whatever the swaps and
\* total_ingredients
C13_EstimateNeverNegative ==
    (/\ f_ret.op = "estimate_nutrition_with_swaps"
     /\ \A k \in DOMAIN f_call.original_nutrition : f_call.original_nutrition[k].n >= 0)
    => \A k \in DOMAIN f_ret.value : f_ret.value[k].n >= 0
\* two accepted swaps, one nutrient lowered and another raised
C13_Witness ==
    /\ f_ret.op = "estimate_nutrition_with_swaps"
    /\ Len(AcceptedSwaps) >= 2
    /\ \E k \in DOMAIN f_ret.value : RLess(f_ret.value[k], f_call.original_nutrition[k])
    /\ \E k \in DOMAIN f_ret.value : RLess(f_call.original_nutrition[k], f_ret.value[k])

\* C15: estimate_nutrition_with_swaps returns calories, protein, carbs and
\* fat as they were given, and the keys it was given
C15_MacrosUnchanged ==
    f_ret.op = "estimate_nutrition_with_swaps" =>
        /\ DOMAIN f_ret.value = DOMAIN f_call.original_nutrition
        /\ \A k \in {"calories", "protein", "carbs", "fat"} \cap DOMAIN f_ret.value :
             f_ret.value[k] = f_call.original_nutrition[k]
\* an accepted substitute whose table has a calories or a carbs factor, in a
\* call that changed another nutrient
C15_Witness ==
    /\ f_ret.op = "estimate_nutrition_with_swaps"
    /\ \E i \in 1..Len(AcceptedSwaps) :
         {"calories", "carbs", "fat"}
           \cap DOMAIN GetNutritionAdjustments(AcceptedSwaps[i].substitute) # {}
    /\ {"calories", "carbs", "fat"} \subseteq DOMAIN f_ret.value
    /\ \E k \in DOMAIN f_ret.value : f_ret.value[k] # f_call.original_nutrition[k]

\* v x (1 - s x (1 - f)) for every swap of the list whose table has the
\* nutrient, one after another; s is 1 / n and f is in twentieths
RECURSIVE ShareByShare(_, _, _, _)
ShareByShare(v, swaps, nutrient, n) ==
    IF swaps = <<>> THEN v
    ELSE LET table == GetNutritionAdjustments(Head(swaps).substitute)
         IN ShareByShare(
              IF nutrient \in DOMAIN table
              THEN RMul(v, 20 * n - (20 - table[nutrient]), 20 * n)
              ELSE v,
              Tail(swaps), nutrient, n)
C18_FiberGrowsCholesterolDoesNot ==
    (/\ f_ret.op = "estimate_nutrition_changes"
     /\ f_call.n_ingredients >= 1
     /\ f_call.substitutions # <<>>
     /\ "fiber" \in DOMAIN f_call.nutrition_data
     /\ f_call.nutrition_data["fiber"].n > 0)
    => /\ RLess(f_call.nutrition_data["fiber"], f_ret.value["fiber"])
       /\ "cholesterol" \in DOMAIN f_call.nutrition_data
            => ~RLess(f_call.nutrition_data["cholesterol"], f_ret.value["cholesterol"])

(***************************************************************************)
(* Properties of analyze_full                                              *)
(***************************************************************************)
AgentFailedOutright == a_in.agent.raises \/ a_in.agent.substitutions = <<>>
\* C17: when the agent is configured and its run raises or returns no
\* substitution, the rule-based path runs in the same request and supplies
\* risky_ingredients, swap_suggestions and the improved score; when the agent
\* returns a substitution the rule-based path does not run
C17_RulesRunIffAgentGivesNothing ==
    (a_pc = "responded" /\ a_in.configured) =>
        /\ a_loc.agent_ran
        /\ AgentFailedOutright
             => /\ a_loc.rules_ran
                /\ a_loc.risky_ingredients = a_in.risky_objs
                /\ \A i \in 1..Len(a_loc.swap_suggestions) :
                     a_loc.swap_suggestions[i].by = "rules"
                /\ Len(a_loc.swap_suggestions)
                     = Cardinality({k \in 1..Len(a_in.risky_objs) : a_in.find[k] = "options"})
                /\ a_loc.improved_score \in {"projected by rules", "original_score"}
                /\ a_loc.improved_score = "projected by rules"
                     <=> a_loc.swap_suggestions # <<>>
        /\ ~AgentFailedOutright
             => /\ ~a_loc.rules_ran
                /\ Len(a_loc.swap_suggestions) = Len(a_in.agent.substitutions)
                /\ \A i \in 1..Len(a_loc.swap_suggestions) :
                     a_loc.swap_suggestions[i].by = "agent"
                /\ a_loc.improved_score = "projected by agent"
\* a request answered after the agent raised and the rules found a swap
C17_Witness ==
    /\ a_pc = "responded"
    /\ a_in.configured
    /\ a_in.agent.raises
    /\ a_loc.rules_ran
    /\ a_loc.swap_suggestions # <<>>
    /\ a_loc.improved_score = "projected by rules"

(***************************************************************************)
(* The agent loop again: how many model calls a run makes, how a           *)
(* tool-calling turn is laid out in the conversation, and what a result    *)
(* that reports the iteration limit stands for.                            *)
(***************************************************************************)

\* C21 as stated: a run makes at most max_iterations model calls, and when
\* it has ended it has ended by returning an AgentSwapResult.
C21_AtMostMaxCallsAndAlwaysAResult ==
    /\ model_calls <= MaxIterations
    /\ Ended => (pc = "done" /\ result.returned)

PartNames(parts) == [j \in 1..Len(parts) |-> parts[j].name]
PendingNames == [j \in 1..Len(pending) |-> pending[j].name]

\* C22: in a tool-calling turn the model's response is appended first, the
\* requested tools are executed one at a time in request order, their
\* results are appended as exactly one user turn in the same order, and no
\* model call is made before that; the conversation grows by two entries per
\* tool-calling turn.
C22_ToolTurnIsResponseThenOneResultsTurn ==
    /\ \A i \in 1..Len(contents) :
        /\ contents[i].kind = "calls" =>
             IF i < Len(contents)
             THEN /\ contents[i + 1].kind = "results"
                  /\ contents[i + 1].role = "user"
                  /\ PartNames(contents[i + 1].parts) = contents[i].calls
             ELSE /\ pc \in {"tools", "batch"}
                  /\ PartNames(response_parts) \o PendingNames = contents[i].calls
        /\ contents[i].kind = "results" => (i > 1 /\ contents[i - 1].kind = "calls")
    /\ tools_called \o PendingNames = RequestedNames(contents)
    /\ pc \in {"tools", "batch"} =>
        /\ contents[Len(contents)].kind = "calls"
        /\ model_calls = ToolTurns
        /\ Len(contents) = 2 * ToolTurns
    /\ pc = "loop" =>
        /\ model_calls = ToolTurns
        /\ Len(contents) = 1 + 2 * ToolTurns

\* two tool-calling turns are complete, one of them with two different tools
C22_Witness ==
    /\ pc = "loop"
    /\ ToolTurns = 2
    /\ \E i \in 1..Len(contents) :
        /\ contents[i].kind = "results"
        /\ Len(contents[i].parts) = 2
        /\ contents[i].parts[1].name # contents[i].parts[2].name

\* C23 as stated: a result that reports the iteration limit is returned only
\* by a run that made max_iterations model calls.
C23_LimitReportedOnlyAtTheLimit ==
    (pc = "done" /\ result.data_completeness = "partial"
                 /\ result.raw_reasoning = LimitNote) =>
        /\ model_calls = MaxIterations
        /\ result.iterations = MaxIterations

(***************************************************************************)
(* The order of the options rank_substitutes returns.                      *)
(***************************************************************************)

NonIncreasing(options) ==
    \A i, j \in 1..Len(options) : i < j => options[i].rank_score >= options[j].rank_score

\* C24: the list rank_substitutes returns, which find_substitutes returns
\* as it is, is ordered by non-increasing final rank_score, the score
\* computed after the semantic re-ranking, and every scored candidate left
\* out of the five returned has a rank_score no higher than that of any
\* returned option.
C24_TopFiveByFinalRankScore ==
    /\ (ranking.called /\ ~ranking.raised) =>
        /\ Len(ranking.options) = Min(5, Len(ranking.scored))
        /\ Range(ranking.options) \subseteq Range(ranking.scored)
        /\ NonIncreasing(ranking.options)
        /\ \A k \in 1..Len(ranking.scored) :
             ranking.scored[k] \notin Range(ranking.options) =>
                 \A i \in 1..Len(ranking.options) :
                     ranking.scored[k].rank_score <= ranking.options[i].rank_score
        /\ \A i \in 1..Len(ranking.options) :
             ranking.options[i].rank_score =
                 ranking.options[i].flavor_match * engine.flavor_weight
                 + ranking.options[i].health_improvement * engine.health_weight
                 + (IF ranking.semantic_applied
                    THEN SemanticScore(
                             ComputeSimilarityScores(ranking.semantic,
                                 [n \in 1..Len(ranking.scored) |-> ranking.scored[n].name]),
                             ranking.options[i].name) * engine.semantic_weight
                    ELSE 0)
    /\ (found.called /\ ~found.raised) =>
        /\ found.options = ranking.options
        /\ NonIncreasing(found.options)

\* more than five candidates were scored, the semantic scores were applied
\* and changed the order: a returned option has a lower flavor-and-health
\* score than the option after it, and a candidate was left out
C24_Witness ==
    /\ ranking.called
    /\ ~ranking.raised
    /\ ranking.semantic_applied
    /\ Len(ranking.scored) > 5
    /\ \E i \in 1..4 :
         ranking.options[i].flavor_match * engine.flavor_weight
           + ranking.options[i].health_improvement * engine.health_weight
         < ranking.options[i + 1].flavor_match * engine.flavor_weight
           + ranking.options[i + 1].health_improvement * engine.health_weight
    /\ ranking.options[1].rank_score > ranking.options[5].rank_score

(***************************************************************************)
(* The health improvement estimated for a substitute.                      *)
(***************************************************************************)

\* the scaling factor of the estimate, in tenths
ScaleFor(c) ==
    IF c < 300 THEN 15
    ELSE IF c < 500 THEN 12
    ELSE IF c <= 700 THEN 10
    ELSE 8
TableEstimates == {ImprovementEstimates[i].estimate : i \in 1..Len(ImprovementEstimates)}

Raising(nutrient) ==
    {i \in 1..Len(AcceptedSwaps) :
        LET table == GetNutritionAdjustments(AcceptedSwaps[i].substitute)
        IN nutrient \in DOMAIN table /\ table[nutrient] > 20}
FirstOf(S) == CHOOSE i \in S : \A j \in S : i <= j

\* C26: an adjustable nutrient of the record that is 0 when a swap is
\* applied stays 0 when the factor of the substitute is at most 1.0, and
\* becomes baseline x share x factor when the factor is above 1.0, a
\* positive value for sugar, sodium, saturated_fat, cholesterol and fiber;
\* the swaps after that one adjust the injected value share by share.
C26_ZeroGetsBaselineOnlyWhenRaised ==
    (f_ret.op = "estimate_nutrition_with_swaps" /\ AcceptedSwaps # <<>>) =>
        LET n == Max(Max(f_call.total_ingredients, Len(AcceptedSwaps) + 2), 3)
            v == f_call.original_nutrition
        IN \A k \in {"sugar", "sodium", "saturated_fat", "trans_fat",
                     "cholesterol", "fiber"} \cap DOMAIN v :
             v[k].n = 0 =>
               IF Raising(k) = {}
               THEN f_ret.value[k] = Whole(0)
               ELSE LET first == FirstOf(Raising(k))
                        factor == GetNutritionAdjustments(
                                      AcceptedSwaps[first].substitute)[k]
                        injected == RMul(Whole(Baseline[k]), factor, 20 * n)
                    IN /\ k # "trans_fat" => RLess(Whole(0), injected)
                       /\ f_ret.value[k] =
                            ShareByShare(injected,
                                         SubSeq(AcceptedSwaps, first + 1,
                                                Len(AcceptedSwaps)),
                                         k, n)

\* lentils alone over 3 ingredients on a record of zeros: fiber becomes
\* 2 x (1/3) x 3.0 = 2 and saturated_fat, lowered by lentils, stays 0
C26_Witness ==
    /\ f_ret.op = "estimate_nutrition_with_swaps"
    /\ Len(AcceptedSwaps) = 1
    /\ AcceptedSwaps[1].substitute = <<"lentils">>
    /\ f_call.total_ingredients = 3
    /\ {"fiber", "saturated_fat"} \subseteq DOMAIN f_call.original_nutrition
    /\ f_call.original_nutrition["fiber"] = Whole(0)
    /\ f_call.original_nutrition["saturated_fat"] = Whole(0)
    /\ f_ret.value["fiber"] = Whole(2)
    /\ f_ret.value["saturated_fat"] = Whole(0)

(***************************************************************************)
(* A candidate whose flavor lookup raises.  calculate_flavor_similarity    *)
(* and get_flavor_profile_by_ingredient are called in the same try block   *)
(* of the loop, so FlavorRaises stands for an exception of either.         *)
(***************************************************************************)

LookupRaises(candidate) == FlavorSimilarity(ranking.flavor, candidate) = FlavorRaises
SameAsOriginal(candidate) ==
    NormalizeIngredientName(candidate) = NormalizeIngredientName(ranking.original_name)
ScoredNames == [i \in 1..Len(ranking.scored) |-> ranking.scored[i].name]
\* the option of the candidate is one SubstituteOption refuses to hold
OptionRefused(candidate) ==
    LET flavor_match == FlavorSimilarity(ranking.flavor, candidate)
        health_improvement ==
            EstimateHealthImprovement(candidate, ranking.current_health_score)
    IN SubstituteOptionRejects(flavor_match, health_improvement,
                               flavor_match * engine.flavor_weight
                               + health_improvement * engine.health_weight)
Survives(candidate) ==
    /\ ~LookupRaises(candidate)
    /\ ~SameAsOriginal(candidate)
    /\ ~OptionRefused(candidate)

EntryOf(key) == AdjustmentMap[CHOOSE k \in 1..Len(AdjustmentMap) :
                                  AdjustmentMap[k].pattern = key]

\* C28 as stated: a substitute whose name is exactly a key of the table is
\* projected with the factors of that key, neither with those of another
\* entry nor with the default of 0.85.
C28_EveryKeyGetsItsOwnFactors ==
    (/\ f_ret # NoCall
     /\ f_ret.op = "get_nutrition_adjustments"
     /\ f_call.substitute_name \in AdjustmentKeys)
    => f_ret.value = EntryOf(f_call.substitute_name).adjustments

\* the keys that are projected with the default
C28_KeysOnDefault ==
    (/\ f_ret # NoCall
     /\ f_ret.op = "get_nutrition_adjustments"
     /\ f_call.substitute_name \in AdjustmentKeys
     /\ f_ret.value # EntryOf(f_call.substitute_name).adjustments)
    => /\ f_ret.value = DefaultAdjustments
       /\ f_call.substitute_name \in {<<"whole", "wheat", "flour">>,
                                      <<"whole", "wheat", "pasta">>,
                                      <<"ground", "turkey">>,
                                      <<"ground", "chicken">>}

(***************************************************************************)
(* RecipeDBService._wait_rate_limit called by several threads.  Time is    *)
(* time.monotonic() in ticks; a thread takes the steps of the method one   *)
(* at a time and the clock may advance between any two of them.            *)
(***************************************************************************)

NumThreads == 2       \* threads that call _wait_rate_limit
MaxWaitCalls == 2     \* calls of _wait_rate_limit by one thread
MaxClock == 6         \* the last tick of the clock

Threads == 1..NumThreads
\* self._rate_limit_delay = max(0.0, RECIPEDB_RATE_LIMIT_DELAY), in ticks
RateLimitDelays == {0, 2}
\* what time.monotonic() reads when the first thread calls
ClockStarts == {0, 1}

IdleThread == [pc |-> "idle", now |-> 0, wait |-> 0, until |-> 0, calls |-> 0]

\* the service after __init__: the lock is free, _last_request_time = 0.0
InitRate ==
    /\ AgentOff
    /\ HealthIdle
    /\ SwapIdle
    /\ PureIdle
    /\ CoordIdle
    /\ request = NoRequest
    /\ \E delay \in RateLimitDelays, start \in ClockStarts :
         limiter = [delay |-> delay, lock |-> 0, last |-> 0, clock |-> start,
                    slots |-> <<>>]
    /\ threads = [t \in Threads |-> IdleThread]

RateUnchanged == UNCHANGED <<request, agentVars, healthVars, swapVars, pureVars, coordVars>>

\* if self._rate_limit_delay <= 0: return
CallWaitRateLimit(t) ==
    /\ threads[t].pc = "idle"
    /\ threads[t].calls < MaxWaitCalls
    /\ threads' = [threads EXCEPT ![t].calls = @ + 1,
                                  ![t].pc = IF limiter.delay <= 0 THEN "idle"
                                            ELSE "acquire"]
    /\ UNCHANGED limiter
    /\ RateUnchanged

\* mutant: the method does not take the lock
AcquireLock_NoLock(t) ==
    /\ threads[t].pc = "acquire"
    /\ threads' = [threads EXCEPT ![t].pc = "now"]
    /\ UNCHANGED limiter
    /\ RateUnchanged

\* with self._rate_limit_lock: the thread goes on when the lock is free
AcquireLock(t) ==
    /\ threads[t].pc = "acquire"
    /\ limiter.lock = 0
    /\ limiter' = [limiter EXCEPT !.lock = t]
    /\ threads' = [threads EXCEPT ![t].pc = "now"]
    /\ RateUnchanged

\* now = time.monotonic()
ReadNow(t) ==
    /\ threads[t].pc = "now"
    /\ threads' = [threads EXCEPT ![t].now = limiter.clock, ![t].pc = "wait"]
    /\ UNCHANGED limiter
    /\ RateUnchanged

\* wait = max(0.0, self._rate_limit_delay - (now - self._last_request_time))
ComputeWait(t) ==
    /\ threads[t].pc = "wait"
    /\ threads' = [threads EXCEPT
                     ![t].wait = Max(0, limiter.delay - (threads[t].now - limiter.last)),
                     ![t].pc = "store"]
    /\ UNCHANGED limiter
    /\ RateUnchanged

\* self._last_request_time = now + wait: the slot of the caller
StoreLastRequestTime(t) ==
    /\ threads[t].pc = "store"
    /\ limiter' = [limiter EXCEPT
                     !.last = threads[t].now + threads[t].wait,
                     !.slots = Append(@, [thread |-> t,
                                          slot |-> threads[t].now + threads[t].wait])]
    /\ threads' = [threads EXCEPT ![t].pc = "release"]
    /\ RateUnchanged

\* the end of the with block; then time.sleep(wait) when wait > 0
ReleaseLock(t) ==
    /\ threads[t].pc = "release"
    /\ limiter' = [limiter EXCEPT !.lock = IF @ = t THEN 0 ELSE @]
    /\ threads' = [threads EXCEPT
                     ![t] = IF threads[t].wait > 0
                            THEN [@ EXCEPT !.pc = "sleep",
                                           !.until = limiter.clock + threads[t].wait]
                            ELSE [IdleThread EXCEPT !.calls = threads[t].calls]]
    /\ RateUnchanged

\* time.sleep(wait) returns, not before wait has passed, and the method with it
WakeUp(t) ==
    /\ threads[t].pc = "sleep"
    /\ limiter.clock >= threads[t].until
    /\ threads' = [threads EXCEPT ![t] = [IdleThread EXCEPT !.calls = threads[t].calls]]
    /\ UNCHANGED limiter
    /\ RateUnchanged

\* time passes
Tick ==
    /\ limiter.clock < MaxClock
    /\ \E t \in Threads : threads[t].pc # "idle" \/ threads[t].calls < MaxWaitCalls
    /\ limiter' = [limiter EXCEPT !.clock = @ + 1]
    /\ UNCHANGED threads
    /\ RateUnchanged

NextRate ==
    \/ \E t \in Threads : CallWaitRateLimit(t)
    \/ \E t \in Threads : AcquireLock(t)
    \/ \E t \in Threads : ReadNow(t)
    \/ \E t \in Threads : ComputeWait(t)
    \/ \E t \in Threads : StoreLastRequestTime(t)
    \/ \E t \in Threads : ReleaseLock(t)
    \/ \E t \in Threads : WakeUp(t)
    \/ Tick

SpecRate == InitRate /\ [][NextRate]_vars

\* C29: with rate_limit_delay > 0, under any interleaving of the threads in
\* _wait_rate_limit the slots reserved are pairwise at least
\* rate_limit_delay apart, and no two callers reserve the same slot.
C29_SlotsAtLeastDelayApart ==
    limiter.delay > 0 =>
        \A i, j \in 1..Len(limiter.slots) :
            i < j => limiter.slots[j].slot - limiter.slots[i].slot >= limiter.delay

\* two threads were in the method together: the second read the clock
\* before the first one's slot had come, and both have reserved
C29_Witness ==
    /\ limiter.delay > 0
    /\ Len(limiter.slots) >= 3
    /\ \E i, j \in 1..Len(limiter.slots) :
         /\ i < j
         /\ limiter.slots[i].thread # limiter.slots[j].thread
    /\ \E t \in Threads : threads[t].pc = "sleep" /\ threads[t].wait > 0
    /\ \E t \in Threads : threads[t].pc = "acquire"

(***************************************************************************)
(* _make_request and _handle_retry of FlavorDBService and RecipeDBService: *)
(* one call, with the recursive calls _handle_retry makes.  The clock is   *)
(* in seconds; RecipeDBService waits for its rate limit before every       *)
(* attempt.                                                                *)
(***************************************************************************)

MaxRetries == 3     \* self.max_retries
RetryDelay == 1     \* self.retry_delay, seconds

\* what requests.get, raise_for_status and response.json() do on the
\* primary URL.  An undecodable body raises requests' JSONDecodeError,
\* which is a RequestException in requests >= 2.27 and only a ValueError
\* before; the version is not pinned.
PrimaryOutcomes ==
    {"data", "timeout", "connection_error", "http_404", "http_429", "http_500",
     "request_exception", "json_request_exception", "json_value_error"}
\* what the one request of _try_fallback does
FallbackOutcomes == {"data", "fails"}

HttpStatus(outcome) ==
    CASE outcome = "http_404" -> 404
      [] outcome = "http_429" -> 429
      [] outcome = "http_500" -> 500
      [] OTHER -> 0
IsHttpError(outcome) == HttpStatus(outcome) # 0
\* bool(e.response): Response.__bool__ is Response.ok, False from 400 on
ResponseIsTruthy(status) == status < 400
NoStatus == 0

Return(r, value) == [r EXCEPT !.pc = "returned", !.value = value]

\* mutant: one retry more than max_retries
HandleRetry_OneMore(r) ==
    IF r.retry_count <= MaxRetries
    THEN [r EXCEPT !.pc = "sleep", !.wait_time = RetryDelay * (2 ^ r.retry_count)]
    ELSE Return(r, "None")

\* _handle_retry up to time.sleep(wait_time), or its return None
HandleRetry(r) ==
    IF r.retry_count < MaxRetries
    THEN [r EXCEPT !.pc = "sleep", !.wait_time = RetryDelay * (2 ^ r.retry_count)]
    ELSE Return(r, "None")

\* the except clauses of FlavorDBService._make_request
FlavorAfter(r, outcome) ==
    CASE outcome = "data" -> Return(r, "data")
      [] outcome \in {"timeout", "connection_error"} -> HandleRetry(r)
      [] IsHttpError(outcome) ->
            IF 400 <= HttpStatus(outcome) /\ HttpStatus(outcome) < 500
            THEN Return(r, "None")
            ELSE HandleRetry(r)
      [] outcome \in {"request_exception", "json_request_exception"} -> HandleRetry(r)
      [] OTHER -> Return(r, "None")      \* except ValueError

\* RecipeDBService._try_fallback, then what the clause does with it
AfterFallback(r, fallback_outcome) ==
    IF ~r.fallback THEN HandleRetry(r)
    ELSE IF fallback_outcome = "data"
    THEN Return([r EXCEPT !.fallback_attempts = @ + 1], "data")
    ELSE HandleRetry([r EXCEPT !.fallback_attempts = @ + 1])

\* the except clauses of RecipeDBService._make_request
RecipeAfter(r, outcome, fallback_outcome) ==
    CASE outcome = "data" -> Return(r, "data")
      [] outcome \in {"timeout", "connection_error"} -> AfterFallback(r, fallback_outcome)
      [] IsHttpError(outcome) ->
            LET status_code == IF ResponseIsTruthy(HttpStatus(outcome))
                               THEN HttpStatus(outcome) ELSE NoStatus
            IN IF status_code = 429
               THEN \* time.sleep(wait), then _handle_retry
                    HandleRetry([r EXCEPT !.sleeps =
                                    Append(@, 10 + RetryDelay * (2 ^ r.retry_count))])
               ELSE IF status_code # NoStatus /\ 400 <= status_code /\ status_code < 500
               THEN Return(r, "None")
               ELSE HandleRetry(r)
      [] outcome \in {"request_exception", "json_request_exception"} -> HandleRetry(r)
      [] OTHER -> Return(r, "None")      \* except ValueError

\* _wait_rate_limit by the only thread: the slot is reserved and waited for
WaitRateLimit(l) ==
    IF l.delay <= 0 THEN l
    ELSE LET now == l.clock
             wait == Max(0, l.delay - (now - l.last))
         IN [l EXCEPT !.last = now + wait,
                      !.clock = now + wait,
                      !.slots = Append(@, [thread |-> 1, slot |-> now + wait])]

RequestUnchanged == UNCHANGED <<threads, agentVars, healthVars, swapVars, pureVars, coordVars>>

\* one pass of _make_request: the attempt on the primary URL and the clause
\* that handles what it gave
MakeRequest(outcome, fallback_outcome) ==
    /\ request.pc = "attempt"
    /\ limiter' = IF request.service = "recipedb" THEN WaitRateLimit(limiter)
                  ELSE limiter
    /\ \E attempted \in
           {[request EXCEPT !.attempts = @ + 1,
                            !.outcomes = Append(@, [outcome |-> outcome,
                                                    at |-> limiter'.clock])]} :
         request' = IF request.service = "flavordb"
                    THEN FlavorAfter(attempted, outcome)
                    ELSE RecipeAfter(attempted, outcome, fallback_outcome)
    /\ RequestUnchanged

\* time.sleep(wait_time) returns; return self._make_request(..., retry_count + 1)
RetryAfterSleep ==
    /\ request.pc = "sleep"
    /\ limiter' = [limiter EXCEPT !.clock = @ + request.wait_time]
    /\ request' = [request EXCEPT !.pc = "attempt",
                                  !.retry_count = @ + 1,
                                  !.sleeps = Append(@, request.wait_time)]
    /\ RequestUnchanged

\* the call _make_request(endpoint, params), retry_count = 0
FirstCall(service, fallback) ==
    [pc |-> "attempt", service |-> service, fallback |-> fallback,
     retry_count |-> 0, attempts |-> 0, fallback_attempts |-> 0,
     wait_time |-> 0, sleeps |-> <<>>, outcomes |-> <<>>, value |-> "pending"]

InitRequest ==
    /\ AgentOff
    /\ HealthIdle
    /\ SwapIdle
    /\ PureIdle
    /\ CoordIdle
    /\ threads = NoThreads
    /\ \E service \in {"flavordb", "recipedb"}, fallback \in BOOLEAN,
          delay \in RateLimitDelays :
         /\ service = "flavordb" => (~fallback /\ delay = 0)
         /\ request = FirstCall(service, fallback)
         /\ limiter = [NoLimiter EXCEPT !.delay = delay]

SomeMakeRequest ==
    \E outcome \in PrimaryOutcomes, fallback_outcome \in FallbackOutcomes :
        MakeRequest(outcome, fallback_outcome)

NextRequest == SomeMakeRequest \/ RetryAfterSleep
SpecRequest == InitRequest /\ [][NextRequest]_vars

====
